---- MODULE Spec2Model ----
(***************************************************************************)
(* A state-machine model of the WhatsApp backend: the broadcast dispatcher *)
(* (broadcastService.startBroadcast), the minute scheduler, the webhook    *)
(* ingester (handleIncomingMessage, handleMessageStatus) and the flow      *)
(* session handling of processChatbotFlow.  The database is the shared     *)
(* state; every await of a handler is a point where other handlers run.   *)
(***************************************************************************)
EXTENDS Integers, Sequences, FiniteSets, TLC

\* ------------------------------------------------------------------ bounds
NumRecipients == 3      \* recipients of a broadcast
MaxStatusEvents == 3    \* status webhooks processed in one behaviour
\* BATCH_SIZE is 50 in the source; it is scaled to 2 so that a broadcast of
\* NumRecipients recipients has more than one batch.
BATCH_SIZE == 2

Broadcasts == {"b1"}
NoBroadcastId == "none"
Orgs == {"o1"}
\* The start attempts of a broadcast: the create path (createBroadcast calls
\* startBroadcast for a broadcast that is not scheduled for the future) and
\* two scheduler minute ticks (a cron callback is not held back while the
\* previous one is still awaiting).
Ticks == {"tick1", "tick2"}
Procs == {"create"} \cup Ticks
RecIdx == 1..NumRecipients
MsgIds == {"m1", "m2"}
\* Webhook deliveries being handled, the provider ids of the inbound messages
\* they carry and the customers' numbers.
Handlers == {"h1", "h2"}
InboundIds == {"wamid.X", "wamid.Y"}
Phones == {"p1", "p2"}
ConvIds == Handlers \cup {"c0"}
\* Interpreter invocations, flows and inbound texts.
Invs == {"i1", "i2", "i3"}
Flows == {"fHI", "fMENU", "fALL", "fANY", "fKW", "fLOOP"}
NoFlow == "none"
\* Inbound texts are sequences of characters.
T_HI == <<"H", "I">>
T_hi == <<" ", "h", "i", " ">>
T_hix == <<"h", "i", "x">>
T_MENU == <<"M", "E", "N", "U">>
T_LOOP == <<"L", "O", "O", "P">>
T_WELCOME == <<"W", "E", "L", "C", "O", "M", "E">>
T_x == <<"x">>
T_yes == <<"y", "e", "s">>
T_next == <<"n", "e", "x", "t">>
T_star == <<"*">>
Texts == {T_HI, T_MENU, T_x}

NoId == <<>>
Statuses == {"SENT", "DELIVERED", "READ", "FAILED"}

VARIABLES
  bcast,      \* Broadcast rows: status and counters
  recip,      \* BroadcastRecipient rows, per broadcast and index
  disp,       \* the startBroadcast call of each start attempt
  attempts,   \* provider side: sendWhatsAppMessage calls made per recipient
  issued,     \* provider side: the message ids the provider has returned
  msgs,       \* Message rows sent by an operator
  statusLog,  \* the status webhooks received so far, as (id, status) pairs
  nStatus,    \* how many status webhooks were processed
  contacts,   \* Contact rows of the tenant, by waId
  convs,      \* Conversation rows
  inMsgs,     \* Message rows of inbound messages
  hnd,        \* the handleIncomingMessage call of each webhook delivery
  previewLog, \* the conversation preview updates made for inbound messages
  chatbot,    \* the processChatbotFlow invocations made by the ingester
  sessions,   \* FlowSession rows
  inv,        \* the processChatbotFlow invocations in progress
  flows,      \* the tenant's active Flow rows
  probe       \* one resume of a suspended button or list node: input and result

ivars == <<contacts, convs, inMsgs, hnd, previewLog, chatbot>>
fvars == <<sessions, inv, flows>>
xvars == <<probe>>
core == <<bcast, recip, disp, attempts, issued, msgs, statusLog, nStatus, ivars, fvars>>
vars == <<core, xvars>>

\* ------------------------------------------------------------- data shapes
NoBroadcast ==
  [status |-> "NONE", org |-> "o1", totalRecipients |-> 0, sentCount |-> 0,
   deliveredCount |-> 0, readCount |-> 0, failedCount |-> 0, replyCount |-> 0,
   enableChatbot |-> TRUE]

NoRecipient == [status |-> "NONE", waMessageId |-> NoId, error |-> "none"]

IdleCall ==
  [pc |-> "idle", bid |-> "b1", status |-> "NONE", i |-> 0,
   task |-> [r \in RecIdx |-> "none"]]

NoMessage == [status |-> "NONE", waMessageId |-> NoId, org |-> "o1", isRead |-> FALSE]

\* The provider message id returned to start attempt p for recipient r of b.
Wamid(p, b, r) == <<p, b, r>>

Min(a, b) == IF a < b THEN a ELSE b

\* recipients.slice(i, i + BATCH_SIZE), as indexes 1..n
Batch(i, n) == {r \in RecIdx : i < r /\ r <= Min(i + BATCH_SIZE, n)}

NoConversation ==
  [status |-> "NONE", contact |-> "p1", unreadCount |-> 0, lastMessagePreview |-> "none",
   broadcastId |-> NoBroadcastId, isReply |-> FALSE]

IdleHandler ==
  [pc |-> "idle", waMessageId |-> "wamid.X", from |-> "p1", conv |-> "c0",
   convBroadcastId |-> NoBroadcastId]

\* A processChatbotFlow call: its arguments (text, type of the inbound message),
\* the triggered flow, its copy of the session row (session, sessionFlow, node,
\* variables), the executeFlow loop's step counter, and what it has done: the
\* nodes it executed (ran), a session it found expired (expired), and whether
\* another invocation has written the row since this one read it (stale).
IdleInvocation ==
  [pc |-> "idle", org |-> "o1", contact |-> "p1", text |-> T_x, type |-> "text",
   flow |-> NoFlow, session |-> "none", sessionFlow |-> NoFlow, node |-> "start",
   variables |-> {}, steps |-> 0, ran |-> {}, expired |-> "none", stale |-> FALSE,
   selected |-> NoFlow, rule |-> "none",
   from |-> "start", held |-> {}, hours |-> "unchecked", threw |-> "none",
   failed |-> "none"]

\* The phone number of recipient r of a broadcast.
RecipientPhone(r) == IF r = 1 THEN "p1" ELSE "p2"

InitInbound ==
  /\ contacts = {}
  /\ convs = [c \in ConvIds |-> NoConversation]
  /\ inMsgs = {}
  /\ hnd = [h \in Handlers |-> IdleHandler]
  /\ previewLog = {}
  /\ chatbot = {}

InitFlow ==
  /\ sessions = {}
  /\ inv = [i \in Invs |-> IdleInvocation]
  /\ flows = {"fHI", "fMENU"}

\* No resume is being looked at.
NoProbe == [pc |-> "none"]

InitExtra ==
  /\ probe = NoProbe

InitCore ==
  /\ InitInbound
  /\ InitFlow
  /\ bcast = [b \in Broadcasts |-> NoBroadcast]
  /\ recip = [b \in Broadcasts |-> [r \in RecIdx |-> NoRecipient]]
  /\ disp = [p \in Procs |-> IdleCall]
  /\ attempts = [b \in Broadcasts |-> [r \in RecIdx |-> 0]]
  /\ issued = {}
  /\ msgs = [m \in MsgIds |-> NoMessage]
  /\ statusLog = {}
  /\ nStatus = 0

Init == InitCore /\ InitExtra

\* ------------------------------------------------------ broadcast creation
\* createBroadcast: the row and its recipients; the create path starts the
\* dispatch when the broadcast is not scheduled for the future.
CreateBroadcast(b, n, future, enableChatbot) ==
  /\ bcast[b].status = "NONE"
  /\ disp["create"].pc = "idle"
  /\ bcast' = [bcast EXCEPT ![b] =
        [NoBroadcast EXCEPT !.status = IF future THEN "SCHEDULED" ELSE "PENDING",
                            !.totalRecipients = n,
                            !.enableChatbot = enableChatbot]]
  /\ recip' = [recip EXCEPT ![b] =
        [r \in RecIdx |-> IF r <= n THEN [NoRecipient EXCEPT !.status = "PENDING"]
                                    ELSE NoRecipient]]
  /\ disp' = IF future THEN disp
             ELSE [disp EXCEPT !["create"] = [IdleCall EXCEPT !.pc = "fetch", !.bid = b]]
  /\ UNCHANGED <<xvars, attempts, issued, msgs, statusLog, nStatus, ivars, fvars>>

\* initScheduler's cron callback: the broadcasts that are SCHEDULED and due;
\* startBroadcast is awaited for each.
SchedulerTick(t, b) ==
  /\ disp[t].pc = "idle"
  /\ bcast[b].status = "SCHEDULED"
  /\ disp' = [disp EXCEPT ![t] = [IdleCall EXCEPT !.pc = "fetch", !.bid = b]]
  /\ UNCHANGED <<xvars, bcast, recip, attempts, issued, msgs, statusLog, nStatus, ivars, fvars>>

\* Marking a broadcast cancelled (an operator's or administrator's write).
CancelBroadcast(b) ==
  /\ bcast[b].status \in {"PENDING", "SCHEDULED", "PROCESSING"}
  /\ bcast' = [bcast EXCEPT ![b].status = "CANCELLED"]
  /\ UNCHANGED <<xvars, recip, disp, attempts, issued, msgs, statusLog, nStatus, ivars, fvars>>

\* ------------------------------------------------------------ startBroadcast
\* A guard that stops only a completed broadcast.
StartableUnlessCompleted(status) == status # "COMPLETED"

\* The guard of startBroadcast: only a pending or scheduled broadcast starts.
Startable(status) == status \in {"PENDING", "SCHEDULED"}

\* findUnique with the recipients, then the status guard on the fetched row:
\* a call on a broadcast that is not startable returns ("returned").
Fetch(p) ==
  /\ disp[p].pc = "fetch"
  /\ disp' = [disp EXCEPT ![p].status = bcast[disp[p].bid].status,
                          ![p].pc = IF Startable(bcast[disp[p].bid].status)
                                    THEN "mark" ELSE "returned"]
  /\ UNCHANGED <<xvars, bcast, recip, attempts, issued, msgs, statusLog, nStatus, ivars, fvars>>

\* The tasks of the batch that starts after index i, all at their send.
StartTasks(i, n) == [r \in RecIdx |-> IF r \in Batch(i, n) THEN "send" ELSE "none"]

\* status := PROCESSING, then the first batch is mapped over.
MarkProcessing(p) ==
  LET b == disp[p].bid IN
  /\ disp[p].pc = "mark"
  /\ bcast' = [bcast EXCEPT ![b].status = "PROCESSING"]
  /\ disp' = [disp EXCEPT ![p].pc = "batch", ![p].i = 0,
                          ![p].task = StartTasks(0, bcast[b].totalRecipients)]
  /\ UNCHANGED <<xvars, recip, attempts, issued, msgs, statusLog, nStatus, ivars, fvars>>

\* One recipient's task reaches sendWhatsAppMessage: the provider accepts
\* ("ok", a message id is returned), refuses ("err", success: false), or the
\* task throws ("throw", caught by the task's own catch).
Send(p, r, outcome) ==
  LET b == disp[p].bid IN
  /\ disp[p].pc = "batch"
  /\ disp[p].task[r] = "send"
  /\ attempts' = [attempts EXCEPT ![b][r] = @ + 1]
  /\ issued' = IF outcome = "ok" THEN issued \cup {Wamid(p, b, r)} ELSE issued
  /\ disp' = [disp EXCEPT ![p].task[r] =
        CASE outcome = "ok" -> "rec"
          [] outcome = "err" -> "frec"
          [] OTHER -> "trec"]
  /\ UNCHANGED <<xvars, bcast, recip, msgs, statusLog, nStatus, ivars, fvars>>

\* result.success: the recipient row gets SENT and the provider message id.
RecordSent(p, r) ==
  LET b == disp[p].bid IN
  /\ disp[p].pc = "batch"
  /\ disp[p].task[r] = "rec"
  /\ recip' = [recip EXCEPT ![b][r].status = "SENT",
                            ![b][r].waMessageId = Wamid(p, b, r)]
  /\ disp' = [disp EXCEPT ![p].task[r] = "inc"]
  /\ UNCHANGED <<xvars, bcast, attempts, issued, msgs, statusLog, nStatus, ivars, fvars>>

\* sentCount: { increment: 1 }, an atomic increment in the database.
IncrementSent(p, r) ==
  LET b == disp[p].bid IN
  /\ disp[p].pc = "batch"
  /\ disp[p].task[r] = "inc"
  /\ bcast' = [bcast EXCEPT ![b].sentCount = @ + 1]
  /\ disp' = [disp EXCEPT ![p].task[r] = "attr"]
  /\ UNCHANGED <<xvars, recip, attempts, issued, msgs, statusLog, nStatus, ivars, fvars>>

\* conversation.findFirst by the recipient's phone number (any status)
ConversationsOf(phone) == {c \in ConvIds : convs[c].status # "NONE" /\ convs[c].contact = phone}

\* The recipient's conversation, if there is one, gets the template preview
\* and the link to the broadcast; isReply is reset.
AttributeConversation(p, r) ==
  LET b == disp[p].bid
      C == ConversationsOf(RecipientPhone(r)) IN
  /\ disp[p].pc = "batch"
  /\ disp[p].task[r] = "attr"
  /\ \/ /\ C = {}
        /\ convs' = convs
     \/ \E c \in C :
          convs' = [convs EXCEPT ![c].lastMessagePreview = "template",
                                 ![c].broadcastId = b,
                                 ![c].isReply = FALSE]
  /\ disp' = [disp EXCEPT ![p].task[r] = "done"]
  /\ UNCHANGED <<xvars, bcast, recip, attempts, issued, msgs, statusLog, nStatus,
                 contacts, inMsgs, hnd, previewLog, chatbot, fvars>>

\* result.success is false: FAILED with the provider error on the recipient.
RecordFailed(p, r) ==
  LET b == disp[p].bid IN
  /\ disp[p].pc = "batch"
  /\ disp[p].task[r] = "frec"
  /\ recip' = [recip EXCEPT ![b][r].status = "FAILED", ![b][r].error = "provider"]
  /\ disp' = [disp EXCEPT ![p].task[r] = "finc"]
  /\ UNCHANGED <<xvars, bcast, attempts, issued, msgs, statusLog, nStatus, ivars, fvars>>

\* failedCount: { increment: 1 }
IncrementFailed(p, r) ==
  LET b == disp[p].bid IN
  /\ disp[p].pc = "batch"
  /\ disp[p].task[r] = "finc"
  /\ bcast' = [bcast EXCEPT ![b].failedCount = @ + 1]
  /\ disp' = [disp EXCEPT ![p].task[r] = "done"]
  /\ UNCHANGED <<xvars, recip, attempts, issued, msgs, statusLog, nStatus, ivars, fvars>>

\* catch (recipientError): FAILED with the exception message, no counter.
RecordThrown(p, r) ==
  LET b == disp[p].bid IN
  /\ disp[p].pc = "batch"
  /\ disp[p].task[r] = "trec"
  /\ recip' = [recip EXCEPT ![b][r].status = "FAILED", ![b][r].error = "exception"]
  /\ disp' = [disp EXCEPT ![p].task[r] = "done"]
  /\ UNCHANGED <<xvars, bcast, attempts, issued, msgs, statusLog, nStatus, ivars, fvars>>

BatchFinished(p) ==
  \A r \in Batch(disp[p].i, bcast[disp[p].bid].totalRecipients) : disp[p].task[r] = "done"

\* Promise.all of the batch resolves; with recipients left the loop waits
\* BATCH_DELAY and maps over the next batch.
NextBatch(p) ==
  LET b == disp[p].bid
      n == bcast[b].totalRecipients IN
  /\ disp[p].pc = "batch"
  /\ BatchFinished(p)
  /\ disp[p].i + BATCH_SIZE < n
  /\ disp' = [disp EXCEPT ![p].i = @ + BATCH_SIZE,
                          ![p].task = StartTasks(disp[p].i + BATCH_SIZE, n)]
  /\ UNCHANGED <<xvars, bcast, recip, attempts, issued, msgs, statusLog, nStatus, ivars, fvars>>

\* After the last batch: status := COMPLETED.
Complete(p) ==
  LET b == disp[p].bid
      n == bcast[b].totalRecipients IN
  /\ disp[p].pc = "batch"
  /\ BatchFinished(p)
  /\ ~(disp[p].i + BATCH_SIZE < n)
  /\ bcast' = [bcast EXCEPT ![b].status = "COMPLETED"]
  /\ disp' = [disp EXCEPT ![p].pc = "done"]
  /\ UNCHANGED <<xvars, recip, attempts, issued, msgs, statusLog, nStatus, ivars, fvars>>

\* ------------------------------------------------------------ operator send
\* sendMessage: the provider call, then the Message row: SENT with the
\* provider message id, or FAILED without one.
SendMessage(m, o, ok) ==
  /\ msgs[m].status = "NONE"
  /\ msgs' = [msgs EXCEPT ![m] =
        [status |-> IF ok THEN "SENT" ELSE "FAILED",
         waMessageId |-> IF ok THEN <<"op", m>> ELSE NoId,
         org |-> o, isRead |-> FALSE]]
  /\ issued' = IF ok THEN issued \cup {<<"op", m>>} ELSE issued
  /\ UNCHANGED <<xvars, bcast, recip, disp, attempts, statusLog, nStatus, ivars, fvars>>

\* ------------------------------------------------------ handleMessageStatus
\* statusMap[newStatus] || current
StatusMap(newStatus, current) == IF newStatus \in Statuses THEN newStatus ELSE current

\* message.findFirst({ waMessageId, organizationId })
FindMessage(o, id) == {m \in MsgIds : msgs[m].status # "NONE" /\ msgs[m].waMessageId = id
                                      /\ msgs[m].org = o}

\* broadcastRecipient.findFirst({ waMessageId, status: { not: 'FAILED' } })
FindRecipient(id) ==
  {x \in Broadcasts \X RecIdx : /\ recip[x[1]][x[2]].status \notin {"NONE", "FAILED"}
                                /\ recip[x[1]][x[2]].waMessageId = id}

\* The status written to the Message row.
MessageStatusUpdate(newStatus, current) == StatusMap(newStatus, current)

\* The counters of the broadcast after a status webhook for one recipient.
BroadcastAggregates(row, newStatus) ==
  [row EXCEPT !.deliveredCount = IF newStatus = "DELIVERED" THEN @ + 1 ELSE @,
              !.readCount = IF newStatus = "READ" THEN @ + 1 ELSE @,
              !.failedCount = IF newStatus = "FAILED" THEN @ + 1 ELSE @]

HandleMessageStatus(o, id, newStatus) ==
  LET M == FindMessage(o, id)
      R == FindRecipient(id) IN
  /\ nStatus < MaxStatusEvents
  /\ id \in issued
  /\ msgs' = [m \in MsgIds |->
        IF m \in M
        THEN [msgs[m] EXCEPT !.status = MessageStatusUpdate(newStatus, @),
                             !.isRead = (newStatus = "READ")]
        ELSE msgs[m]]
  /\ recip' = [b \in Broadcasts |-> [r \in RecIdx |->
        IF <<b, r>> \in R
        THEN [recip[b][r] EXCEPT !.status = StatusMap(newStatus, @)]
        ELSE recip[b][r]]]
  /\ bcast' = [b \in Broadcasts |->
        IF \E r \in RecIdx : <<b, r>> \in R
        THEN BroadcastAggregates(bcast[b], newStatus)
        ELSE bcast[b]]
  /\ statusLog' = statusLog \cup {<<id, newStatus>>}
  /\ nStatus' = nStatus + 1
  /\ UNCHANGED <<xvars, disp, attempts, issued, ivars, fvars>>

\* ------------------------------------------------------------ specifications
Dispatch(p) ==
  \/ Fetch(p)
  \/ MarkProcessing(p)
  \/ \E r \in RecIdx : \E outcome \in {"ok", "err", "throw"} : Send(p, r, outcome)
  \/ \E r \in RecIdx : RecordSent(p, r)
  \/ \E r \in RecIdx : IncrementSent(p, r)
  \/ \E r \in RecIdx : AttributeConversation(p, r)
  \/ \E r \in RecIdx : RecordFailed(p, r)
  \/ \E r \in RecIdx : IncrementFailed(p, r)
  \/ \E r \in RecIdx : RecordThrown(p, r)
  \/ NextBatch(p)
  \/ Complete(p)

StatusWebhook == \E o \in Orgs : \E id \in issued : \E s \in Statuses : HandleMessageStatus(o, id, s)

\* The broadcast dispatcher, the scheduler and cancellation.
Next ==
  \/ \E b \in Broadcasts : \E n \in RecIdx : \E future \in BOOLEAN : CreateBroadcast(b, n, future, TRUE)
  \/ \E t \in Ticks : \E b \in Broadcasts : SchedulerTick(t, b)
  \/ \E b \in Broadcasts : CancelBroadcast(b)
  \/ \E p \in Procs : Dispatch(p)

Spec == Init /\ [][Next]_vars

\* One dispatch, from the create path, with the status webhooks of its sends.
NextReconcile ==
  \/ \E b \in Broadcasts : \E n \in RecIdx : CreateBroadcast(b, n, FALSE, TRUE)
  \/ Dispatch("create")
  \/ StatusWebhook

SpecReconcile == Init /\ [][NextReconcile]_vars

\* Operator messages and their status webhooks.
NextStatus ==
  \/ \E m \in MsgIds : \E o \in Orgs : \E ok \in BOOLEAN : SendMessage(m, o, ok)
  \/ StatusWebhook

SpecStatus == Init /\ [][NextStatus]_vars

\* ----------------------------------------------------- handleIncomingMessage
\* A webhook delivery with inbound message w from `phone` reaches
\* handleIncomingMessage (processIncomingMessage runs in the background of
\* the POST, so two deliveries may be handled at the same time).
Deliver(h, w, phone) ==
  /\ hnd[h].pc = "idle"
  /\ hnd' = [hnd EXCEPT ![h] = [IdleHandler EXCEPT !.pc = "findContact",
                                                   !.waMessageId = w, !.from = phone]]
  /\ UNCHANGED <<xvars, bcast, recip, disp, attempts, issued, msgs, statusLog, nStatus,
                 contacts, convs, inMsgs, previewLog, chatbot, fvars>>

\* contact.findUnique({ waId, organizationId })
FindContact(h) ==
  /\ hnd[h].pc = "findContact"
  /\ hnd' = [hnd EXCEPT ![h].pc =
        IF hnd[h].from \in contacts THEN "findConv" ELSE "createContact"]
  /\ UNCHANGED <<xvars, bcast, recip, disp, attempts, issued, msgs, statusLog, nStatus,
                 contacts, convs, inMsgs, previewLog, chatbot, fvars>>

\* contact.create: Contact_waId_organizationId_key rejects a second row, and
\* the exception ends the handler.
CreateContact(h) ==
  /\ hnd[h].pc = "createContact"
  /\ IF hnd[h].from \in contacts
     THEN /\ hnd' = [hnd EXCEPT ![h].pc = "failed"]
          /\ contacts' = contacts
     ELSE /\ hnd' = [hnd EXCEPT ![h].pc = "findConv"]
          /\ contacts' = contacts \cup {hnd[h].from}
  /\ UNCHANGED <<xvars, bcast, recip, disp, attempts, issued, msgs, statusLog, nStatus,
                 convs, inMsgs, previewLog, chatbot, fvars>>

\* conversation.findFirst({ contactId, status in [OPEN, PENDING] })
OpenConversations(phone) ==
  {c \in ConvIds : convs[c].status \in {"OPEN", "PENDING"} /\ convs[c].contact = phone}

FindConversation(h) ==
  LET C == OpenConversations(hnd[h].from) IN
  /\ hnd[h].pc = "findConv"
  /\ \/ /\ C = {}
        /\ hnd' = [hnd EXCEPT ![h].pc = "createConv"]
     \/ \E c \in C :
          hnd' = [hnd EXCEPT ![h].conv = c,
                             ![h].convBroadcastId = convs[c].broadcastId,
                             ![h].pc = IF convs[c].isReply THEN "createMsg" ELSE "linkCheck"]
  /\ UNCHANGED <<xvars, bcast, recip, disp, attempts, issued, msgs, statusLog, nStatus,
                 contacts, convs, inMsgs, previewLog, chatbot, fvars>>

\* broadcastRecipient.findFirst({ phoneNumber, broadcast.organizationId }):
\* the broadcasts with a recipient row of that phone number.
RecentBroadcasts(phone) ==
  {b \in Broadcasts : \E r \in RecIdx : recip[b][r].status # "NONE" /\ RecipientPhone(r) = phone}

\* No open conversation: a new one, linked to the most recent broadcast that
\* has the contact as a recipient.
CreateConversation(h) ==
  LET B == RecentBroadcasts(hnd[h].from) IN
  /\ hnd[h].pc = "createConv"
  /\ \E b \in (IF B = {} THEN {NoBroadcastId} ELSE B) :
       /\ convs' = [convs EXCEPT ![h] =
             [NoConversation EXCEPT !.status = "OPEN", !.contact = hnd[h].from,
                                    !.broadcastId = b, !.isReply = (b # NoBroadcastId)]]
       /\ hnd' = [hnd EXCEPT ![h].conv = h, ![h].convBroadcastId = b,
                             ![h].pc = IF b # NoBroadcastId THEN "replyInc" ELSE "createMsg"]
  /\ UNCHANGED <<xvars, bcast, recip, disp, attempts, issued, msgs, statusLog, nStatus,
                 contacts, inMsgs, previewLog, chatbot, fvars>>

\* An open conversation that is no reply yet: it is linked to the broadcast
\* when the conversation read earlier carries no broadcast.
LinkConversation(h) ==
  LET B == RecentBroadcasts(hnd[h].from) IN
  /\ hnd[h].pc = "linkCheck"
  /\ IF B # {} /\ hnd[h].convBroadcastId = NoBroadcastId
     THEN \E b \in B :
            /\ convs' = [convs EXCEPT ![hnd[h].conv].broadcastId = b,
                                      ![hnd[h].conv].isReply = TRUE]
            /\ hnd' = [hnd EXCEPT ![h].convBroadcastId = b, ![h].pc = "replyInc"]
     ELSE /\ convs' = convs
          /\ hnd' = [hnd EXCEPT ![h].pc = "createMsg"]
  /\ UNCHANGED <<xvars, bcast, recip, disp, attempts, issued, msgs, statusLog, nStatus,
                 contacts, inMsgs, previewLog, chatbot, fvars>>

\* replyCount: { increment: 1 } on the linked broadcast
IncrementReply(h) ==
  /\ hnd[h].pc = "replyInc"
  /\ bcast' = [bcast EXCEPT ![hnd[h].convBroadcastId].replyCount = @ + 1]
  /\ hnd' = [hnd EXCEPT ![h].pc = "createMsg"]
  /\ UNCHANGED <<xvars, recip, disp, attempts, issued, msgs, statusLog, nStatus,
                 contacts, convs, inMsgs, previewLog, chatbot, fvars>>

\* A message table without the unique index.
MessageInsertAlways(w) == TRUE

\* Message_waMessageId_key: an insert is accepted when no row holds the id.
MessageInsertAccepted(w) == \A row \in inMsgs : row.waMessageId # w

\* message.create: a second row with the provider message id is rejected
\* ("rejected") and the exception ends the handler.
CreateMessage(h) ==
  /\ hnd[h].pc = "createMsg"
  /\ IF MessageInsertAccepted(hnd[h].waMessageId)
     THEN /\ inMsgs' = inMsgs \cup {[id |-> h, waMessageId |-> hnd[h].waMessageId,
                                     conv |-> hnd[h].conv, status |-> "DELIVERED"]}
          /\ hnd' = [hnd EXCEPT ![h].pc = "updateConv"]
     ELSE /\ inMsgs' = inMsgs
          /\ hnd' = [hnd EXCEPT ![h].pc = "rejected"]
  /\ UNCHANGED <<xvars, bcast, recip, disp, attempts, issued, msgs, statusLog, nStatus,
                 contacts, convs, previewLog, chatbot, fvars>>

\* conversation.update: preview, lastMessageAt, unreadCount: { increment: 1 };
\* the row it returns is the one the chatbot check reads.
UpdateConversation(h) ==
  LET c == hnd[h].conv IN
  /\ hnd[h].pc = "updateConv"
  /\ convs' = [convs EXCEPT ![c].unreadCount = @ + 1,
                            ![c].lastMessagePreview = hnd[h].waMessageId]
  /\ previewLog' = previewLog \cup {<<h, hnd[h].waMessageId, c>>}
  /\ hnd' = [hnd EXCEPT ![h].convBroadcastId = convs[c].broadcastId, ![h].pc = "trigger"]
  /\ UNCHANGED <<xvars, bcast, recip, disp, attempts, issued, msgs, statusLog, nStatus,
                 contacts, inMsgs, chatbot, fvars>>

\* shouldTriggerChatbot: not when the conversation's broadcast has the chatbot
\* switched off.
ShouldTriggerChatbot(broadcastId) ==
  ~(broadcastId # NoBroadcastId /\ bcast[broadcastId].status # "NONE"
    /\ bcast[broadcastId].enableChatbot = FALSE)

\* The end of the handler: processChatbotFlow is invoked, not awaited.
TriggerChatbot(h) ==
  /\ hnd[h].pc = "trigger"
  /\ chatbot' = IF ShouldTriggerChatbot(hnd[h].convBroadcastId)
                THEN chatbot \cup {<<h, hnd[h].waMessageId>>} ELSE chatbot
  /\ hnd' = [hnd EXCEPT ![h].pc = "done"]
  /\ UNCHANGED <<xvars, bcast, recip, disp, attempts, issued, msgs, statusLog, nStatus,
                 contacts, convs, inMsgs, previewLog, fvars>>

Ingest(h) ==
  \/ \E w \in InboundIds : Deliver(h, w, "p1")
  \/ FindContact(h)
  \/ CreateContact(h)
  \/ FindConversation(h)
  \/ CreateConversation(h)
  \/ LinkConversation(h)
  \/ IncrementReply(h)
  \/ CreateMessage(h)
  \/ UpdateConversation(h)
  \/ TriggerChatbot(h)

\* The broadcast row of a tenant that has run one broadcast to the contact:
\* one recipient, completed, the send accepted or refused by the provider.
BroadcastRun(accepted, enableChatbot) ==
  [NoBroadcast EXCEPT !.status = "COMPLETED", !.totalRecipients = 1,
                      !.sentCount = IF accepted THEN 1 ELSE 0,
                      !.failedCount = IF accepted THEN 0 ELSE 1,
                      !.enableChatbot = enableChatbot]

\* The tenant when the deliveries arrive.  history is "none" (no broadcast),
\* "sent" or "refused" (one completed broadcast to the contact); open says
\* whether the contact has an open conversation, which a sent broadcast has
\* attributed to itself.
TenantAt(history, enableChatbot, open) ==
  /\ contacts = IF open THEN {"p1"} ELSE {}
  /\ convs = [c \in ConvIds |->
       IF c = "c0" /\ open
       THEN [NoConversation EXCEPT
               !.status = "OPEN",
               !.lastMessagePreview = IF history = "sent" THEN "template" ELSE "none",
               !.broadcastId = IF history = "sent" THEN "b1" ELSE NoBroadcastId]
       ELSE NoConversation]
  /\ bcast = [b \in Broadcasts |->
       IF history = "none" THEN NoBroadcast
       ELSE BroadcastRun(history = "sent", enableChatbot)]
  /\ recip = [b \in Broadcasts |-> [r \in RecIdx |->
       IF history = "none" \/ r # 1 THEN NoRecipient
       ELSE IF history = "sent"
       THEN [status |-> "SENT", waMessageId |-> Wamid("create", b, 1), error |-> "none"]
       ELSE [status |-> "FAILED", waMessageId |-> NoId, error |-> "provider"]]]
  /\ disp = [p \in Procs |->
       IF history # "none" /\ p = "create" THEN [IdleCall EXCEPT !.pc = "done"] ELSE IdleCall]
  /\ attempts = [b \in Broadcasts |-> [r \in RecIdx |->
       IF history # "none" /\ r = 1 THEN 1 ELSE 0]]
  /\ issued = IF history = "sent" THEN {Wamid("create", "b1", 1)} ELSE {}

InitIngest ==
  /\ InitFlow
  /\ InitExtra
  /\ \E history \in {"none", "sent", "refused"} : \E enableChatbot \in BOOLEAN :
       \E open \in BOOLEAN : TenantAt(history, enableChatbot, open)
  /\ inMsgs = {}
  /\ hnd = [h \in Handlers |-> IdleHandler]
  /\ previewLog = {}
  /\ chatbot = {}
  /\ msgs = [m \in MsgIds |-> NoMessage]
  /\ statusLog = {}
  /\ nStatus = 0

NextIngest == \E h \in Handlers : Ingest(h)

SpecIngest == InitIngest /\ [][NextIngest]_vars

\* -------------------------------------------------------- processChatbotFlow
\* String operations on texts (sequences of characters).
LowerChars == <<"h", "i", "x", "m", "e", "n", "u", "l", "o", "p", "w", "c", "y", "s", "t">>
UpperChars == <<"H", "I", "X", "M", "E", "N", "U", "L", "O", "P", "W", "C", "Y", "S", "T">>

PosIn(c, alphabet) == {k \in 1..Len(alphabet) : alphabet[k] = c}

UpperChar(c) == IF PosIn(c, LowerChars) = {} THEN c
                ELSE UpperChars[CHOOSE k \in PosIn(c, LowerChars) : TRUE]

LowerChar(c) == IF PosIn(c, UpperChars) = {} THEN c
                ELSE LowerChars[CHOOSE k \in PosIn(c, UpperChars) : TRUE]

ToUpperCase(t) == [k \in 1..Len(t) |-> UpperChar(t[k])]

ToLowerCase(t) == [k \in 1..Len(t) |-> LowerChar(t[k])]

Trim(t) ==
  LET inked == {k \in 1..Len(t) : t[k] # " "} IN
  IF inked = {} THEN <<>>
  ELSE SubSeq(t, CHOOSE k \in inked : \A j \in inked : k <= j,
                 CHOOSE k \in inked : \A j \in inked : k >= j)

Includes(t, part) ==
  \E k \in 0..(Len(t) - Len(part)) : SubSeq(t, k + 1, k + Len(part)) = part

\* No start_trigger node, and no working-hours policy.
NoStartTrigger ==
  [triggerMode |-> "none", keywords |-> {}, caseSensitive |-> FALSE, partialMatch |-> FALSE]
NoWorkingHours == [set |-> FALSE, days |-> {}, startHour |-> 0, endHour |-> 0]
OfficeHours == [set |-> TRUE, days |-> {1}, startHour |-> 9, endHour |-> 18]

\* The Flow rows a tenant may have.  Trigger keywords are stored upper-cased.
FlowDef(f) ==
  CASE f = "fHI" ->
         [triggerKeyword |-> T_HI, isDefault |-> TRUE, workingHours |-> OfficeHours,
          startTrigger |-> [triggerMode |-> "keywords", keywords |-> {T_HI},
                            caseSensitive |-> FALSE, partialMatch |-> FALSE]]
    [] f = "fMENU" ->
         [triggerKeyword |-> T_MENU, isDefault |-> FALSE, workingHours |-> OfficeHours,
          startTrigger |-> NoStartTrigger]
    [] f = "fALL" ->
         [triggerKeyword |-> T_star, isDefault |-> FALSE, workingHours |-> NoWorkingHours,
          startTrigger |-> NoStartTrigger]
    [] f = "fANY" ->
         [triggerKeyword |-> T_WELCOME, isDefault |-> FALSE, workingHours |-> OfficeHours,
          startTrigger |-> [NoStartTrigger EXCEPT !.triggerMode = "any"]]
    [] f = "fKW" ->
         [triggerKeyword |-> T_WELCOME, isDefault |-> FALSE, workingHours |-> NoWorkingHours,
          startTrigger |-> [triggerMode |-> "keywords", keywords |-> {<<"h", "i">>},
                            caseSensitive |-> FALSE, partialMatch |-> TRUE]]
    [] OTHER ->
         [triggerKeyword |-> T_LOOP, isDefault |-> FALSE, workingHours |-> NoWorkingHours,
          startTrigger |-> [NoStartTrigger EXCEPT !.triggerMode = "any"]]

\* findFirst / the head of findMany under orderBy: { isDefault: 'desc' }:
\* a default flow comes before the others, whose order the query leaves open.
FirstByDefault(S) ==
  IF \E f \in S : FlowDef(f).isDefault THEN {f \in S : FlowDef(f).isDefault} ELSE S

\* A lookup that compares the text as it came, upper-cased.
TriggeredFlowUntrimmed(text) ==
  FirstByDefault({f \in flows : FlowDef(f).triggerKeyword = ToUpperCase(text)})

\* Step 1: the active flows whose trigger keyword equals the trimmed,
\* upper-cased text, default flow first.
TriggeredFlow(text) ==
  FirstByDefault({f \in flows : FlowDef(f).triggerKeyword = ToUpperCase(Trim(text))})

\* The start_trigger node of flow f accepts the message text.
StartTriggerAccepts(f, text) ==
  LET st == FlowDef(f).startTrigger
      userMessage == IF st.caseSensitive THEN Trim(text) ELSE ToLowerCase(Trim(text))
  IN  \/ st.triggerMode = "any"
      \/ /\ st.triggerMode = "keywords"
         /\ \E keyword \in st.keywords :
              LET compareKeyword == IF st.caseSensitive THEN keyword ELSE ToLowerCase(keyword)
              IN  IF st.partialMatch THEN Includes(userMessage, compareKeyword)
                  ELSE userMessage = compareKeyword

\* Step 4: the catch-all flow, else the first flow whose start_trigger accepts
\* the text, else the default flow.
FallbackFlow(text) ==
  LET catchAll == {f \in flows : FlowDef(f).triggerKeyword = T_star}
      accepting == {f \in flows : StartTriggerAccepts(f, text)}
  IN  IF catchAll # {} THEN FirstByDefault(catchAll)
      ELSE IF accepting # {} THEN FirstByDefault(accepting)
      ELSE {f \in flows : FlowDef(f).isDefault}

\* checkWorkingHours at a clock reading (day of the week, hour).
checkWorkingHours(config, day, hour) ==
  /\ day \in config.days
  /\ hour >= config.startHour
  /\ hour < config.endHour

\* The clock readings an invocation may see.
Days == {0, 1}
Hours == {8, 9, 18}

\* The ingester invokes the interpreter for an inbound message of a contact.
Invoke(i, o, contact, text, type) ==
  /\ inv[i].pc = "idle"
  /\ inv' = [inv EXCEPT ![i] = [IdleInvocation EXCEPT !.pc = "lookup", !.org = o,
                                  !.contact = contact, !.text = text, !.type = type]]
  /\ UNCHANGED <<xvars, bcast, recip, disp, attempts, issued, msgs, statusLog, nStatus, ivars,
                 sessions, flows>>

\* flowSession.findUnique({ contactId_organizationId })
SessionsOf(contact, o) == {x \in sessions : x.contact = contact /\ x.org = o}

\* What findUnique / findFirst return when there is no row.
NoSession ==
  [id |-> "none", contact |-> "p1", org |-> "o1", flowId |-> NoFlow,
   currentNodeId |-> "start", variables |-> {}]

\* Steps 1 and 2: the triggered flow and the contact's session are read.
Lookup(i) ==
  LET T == TriggeredFlow(inv[i].text)
      S == SessionsOf(inv[i].contact, inv[i].org) IN
  /\ inv[i].pc = "lookup"
  /\ \E f \in (IF T = {} THEN {NoFlow} ELSE T) :
       \E x \in (IF S = {} THEN {NoSession} ELSE S) :
          inv' = [inv EXCEPT ![i].flow = f,
                             ![i].session = x.id, ![i].sessionFlow = x.flowId,
                             ![i].node = x.currentNodeId, ![i].variables = x.variables,
                             ![i].stale = FALSE, ![i].pc = "resolve"]
  /\ UNCHANGED <<xvars, bcast, recip, disp, attempts, issued, msgs, statusLog, nStatus, ivars,
                 sessions, flows>>

\* A session table without the unique index.
SessionInsertAlways(contact, o) == TRUE

\* FlowSession_contactId_organizationId_key: an insert is accepted when the
\* (contact, tenant) pair has no row.
SessionInsertAccepted(contact, o) == SessionsOf(contact, o) = {}

\* The invocations other than i that hold a copy of row id learn nothing of a
\* write to it: their copy is stale from then on.
MarkStale(invs, i, id) ==
  [j \in Invs |->
     IF j # i /\ invs[j].session = id /\ invs[j].pc \in {"resolve", "fallback", "execute", "loop", "exit"}
     THEN [invs[j] EXCEPT !.stale = TRUE] ELSE invs[j]]

\* flowSession.create for the invocation, invs holding what it has noted
\* before the call; the row's id is new.  A rejected
\* insert throws and the invocation ends in its catch ("conflict").
CreateSession(invs, i, flowId, rule) ==
  IF SessionInsertAccepted(invs[i].contact, invs[i].org)
  THEN /\ sessions' = sessions \cup {[id |-> i, contact |-> invs[i].contact, org |-> invs[i].org,
                                      flowId |-> flowId, currentNodeId |-> "start",
                                      variables |-> {}]}
       /\ inv' = [invs EXCEPT ![i].session = i, ![i].sessionFlow = flowId,
                              ![i].node = "start", ![i].variables = {},
                              ![i].selected = flowId, ![i].rule = rule,
                              ![i].stale = FALSE, ![i].pc = "execute"]
  ELSE /\ sessions' = sessions
       /\ inv' = [invs EXCEPT ![i].selected = flowId, ![i].rule = rule, ![i].pc = "conflict"]

\* The row after update({ data }).
Patched(x, data) == [k \in DOMAIN x |-> IF k \in DOMAIN data THEN data[k] ELSE x[k]]

\* flowSession.update({ where: { id }, data }) by invocation i, which takes the
\* returned row as its session when `adopt`; invs holds what the invocation
\* has noted before the call.  A row that no longer exists throws and the
\* invocation ends in its catch ("failed").
UpdateSession(invs, i, data, adopt, nextPc) ==
  IF \E x \in sessions : x.id = invs[i].session
  THEN LET old == CHOOSE x \in sessions : x.id = invs[i].session
           new == Patched(old, data)
           mine == IF adopt
                   THEN [invs[i] EXCEPT !.sessionFlow = new.flowId, !.node = new.currentNodeId,
                                        !.variables = new.variables, !.pc = nextPc]
                   ELSE [invs[i] EXCEPT !.pc = nextPc]
       IN  /\ sessions' = (sessions \ {old}) \cup {new}
           /\ inv' = IF DOMAIN data \cap DOMAIN old = {} THEN [invs EXCEPT ![i] = mine]
                     ELSE MarkStale([invs EXCEPT ![i] = mine], i, old.id)
  ELSE /\ sessions' = sessions
       /\ inv' = [invs EXCEPT ![i].pc = "failed"]

\* flowSession.delete({ where: { id } }) by invocation i (terminateSession).
DeleteSession(invs, i, nextPc) ==
  IF \E x \in sessions : x.id = invs[i].session
  THEN /\ sessions' = {x \in sessions : x.id # invs[i].session}
       /\ inv' = MarkStale([invs EXCEPT ![i].pc = nextPc], i, invs[i].session)
  ELSE /\ sessions' = sessions
       /\ inv' = [invs EXCEPT ![i].pc = "failed"]

\* The update that only touches lastInteraction.
Touch == [lastInteraction |-> "now"]

\* Step 3: a trigger keyword switches, creates or restarts the session; without
\* one, a session older than its timeout is dropped from the invocation (the
\* row stays) and a live one is touched.
Resolve(i, expired) ==
  /\ inv[i].pc = "resolve"
  /\ IF inv[i].flow # NoFlow
     THEN IF inv[i].session # "none" /\ inv[i].sessionFlow # inv[i].flow
          THEN UpdateSession([inv EXCEPT ![i].selected = inv[i].flow, ![i].rule = "trigger"], i,
                             [flowId |-> inv[i].flow, currentNodeId |-> "start", variables |-> {}],
                             TRUE, "execute")
          ELSE IF inv[i].session = "none"
          THEN CreateSession(inv, i, inv[i].flow, "trigger")
          ELSE UpdateSession([inv EXCEPT ![i].selected = inv[i].flow, ![i].rule = "trigger"], i,
                             [currentNodeId |-> "start"], TRUE, "execute")
     ELSE IF inv[i].session # "none"
          THEN IF expired
               THEN /\ inv' = [inv EXCEPT ![i].expired = inv[i].session,
                                          ![i].session = "none", ![i].pc = "fallback"]
                    /\ sessions' = sessions
               ELSE UpdateSession([inv EXCEPT ![i].selected = inv[i].sessionFlow,
                                              ![i].rule = "session"], i,
                                  Touch, FALSE, "execute")
          ELSE /\ inv' = [inv EXCEPT ![i].pc = "fallback"]
               /\ sessions' = sessions
  /\ UNCHANGED <<xvars, bcast, recip, disp, attempts, issued, msgs, statusLog, nStatus, ivars, flows>>

\* Step 4: no session: the fallback flow, if there is one, starts a session
\* unless it has working hours and the clock is outside them.
Fallback(i, day, hour) ==
  LET F == FallbackFlow(inv[i].text)
      catchAll == \E f \in flows : FlowDef(f).triggerKeyword = T_star
      accepting == \E f \in flows : StartTriggerAccepts(f, inv[i].text)
      rule == IF catchAll THEN "catch-all" ELSE IF accepting THEN "start_trigger" ELSE "default"
  IN
  /\ inv[i].pc = "fallback"
  /\ \E f \in (IF F = {} THEN {NoFlow} ELSE F) :
       IF f = NoFlow
       THEN /\ inv' = [inv EXCEPT ![i].pc = "done"]
            /\ sessions' = sessions
       ELSE IF FlowDef(f).workingHours.set
               /\ ~checkWorkingHours(FlowDef(f).workingHours, day, hour)
       THEN /\ inv' = [inv EXCEPT ![i].selected = f, ![i].rule = rule,
                                  ![i].hours = "closed", ![i].pc = "closed"]
            /\ sessions' = sessions
       ELSE CreateSession([inv EXCEPT ![i].hours =
                             IF FlowDef(f).workingHours.set THEN "open" ELSE "unchecked"],
                          i, f, rule)
  /\ UNCHANGED <<xvars, bcast, recip, disp, attempts, issued, msgs, statusLog, nStatus, ivars, flows>>

\* executeFlow, by its effect on the session: the run stops on an
\* input-awaiting node or at the step cap and the session is stored
\* ("suspend"), or the flow ends and terminateSession deletes the row.
ExecuteFlow(i, outcome) ==
  /\ inv[i].pc = "execute"
  /\ IF outcome = "suspend"
     THEN UpdateSession(inv, i, [currentNodeId |-> "wait"], FALSE, "done")
     ELSE DeleteSession(inv, i, "done")
  /\ UNCHANGED <<xvars, bcast, recip, disp, attempts, issued, msgs, statusLog, nStatus, ivars, flows>>

Interpret(i) ==
  \/ \E o \in Orgs : \E contact \in Phones : \E text \in Texts : Invoke(i, o, contact, text, "text")
  \/ Lookup(i)
  \/ \E expired \in BOOLEAN : Resolve(i, expired)
  \/ \E day \in Days : \E hour \in Hours : Fallback(i, day, hour)
  \/ \E outcome \in {"suspend", "terminate"} : ExecuteFlow(i, outcome)

NextFlow == \E i \in Invs : Interpret(i)

SpecFlow == Init /\ [][NextFlow]_vars

\* --------------------------------------------------------------- executeFlow
NoNode == "none"

\* The per-call step cap.
STEP_CAP == 30

\* A loop that lets one more node run.
KeepsLoopingAtCap(steps) == steps <= STEP_CAP

\* while (currentNodeId && steps < 30): the part on steps.
KeepsLooping(steps) == steps < STEP_CAP

NoData == [retryOnInvalid |-> FALSE, title |-> <<>>, expectedType |-> "text"]

\* The nodes of the flows (type and the data the interpreter reads) and their
\* edges.  fHI: start_trigger -> message.  fMENU (no start_trigger): a button
\* (yes) -> wait for a text -> api (success -> list, fail -> variable -> message);
\* list (row yes) -> api without fail edge -> agent.  fLOOP: start_trigger ->
\* api c1 -> message c2 -> c1, on either output of c1.
FlowNodes(f) ==
  CASE f = "fMENU" ->
         [b  |-> [type |-> "button", data |-> [NoData EXCEPT !.retryOnInvalid = TRUE, !.title = T_yes]],
          w  |-> [type |-> "wait", data |-> [NoData EXCEPT !.retryOnInvalid = TRUE]],
          a  |-> [type |-> "api", data |-> NoData],
          v  |-> [type |-> "variable", data |-> NoData],
          m  |-> [type |-> "message", data |-> NoData],
          l  |-> [type |-> "list", data |-> [NoData EXCEPT !.retryOnInvalid = TRUE, !.title = T_yes]],
          a2 |-> [type |-> "api", data |-> NoData],
          g  |-> [type |-> "agent", data |-> NoData]]
    [] f = "fLOOP" ->
         [st |-> [type |-> "start_trigger", data |-> NoData],
          c1 |-> [type |-> "api", data |-> NoData],
          c2 |-> [type |-> "message", data |-> NoData]]
    [] OTHER ->
         [st |-> [type |-> "start_trigger", data |-> NoData],
          m  |-> [type |-> "message", data |-> NoData]]

Edge(source, sourceHandle, target) ==
  [source |-> source, sourceHandle |-> sourceHandle, target |-> target]

FlowEdges(f) ==
  CASE f = "fMENU" ->
         {Edge("b", "btn0", "w"), Edge("w", "", "a"),
          Edge("a", "success", "l"), Edge("a", "fail", "v"), Edge("v", "", "m"),
          Edge("l", "yes", "a2"), Edge("a2", "success", "g")}
    [] f = "fLOOP" -> {Edge("st", "", "c1"), Edge("c1", "success", "c2"), Edge("c1", "fail", "c2"),
                       Edge("c2", "", "c1")}
    [] OTHER -> {Edge("st", "", "m")}

\* nodes.find(n => n.id === id)
HasNode(f, n) == f # NoFlow /\ n \in DOMAIN FlowNodes(f)
NodeType(f, n) == IF HasNode(f, n) THEN FlowNodes(f)[n].type ELSE "missing"
NodeData(f, n) == IF HasNode(f, n) THEN FlowNodes(f)[n].data ELSE NoData

\* edges.find(e => e.source === n && e.sourceHandle === handle)?.target || null
Target(f, n, handle) ==
  LET E == {e \in FlowEdges(f) : e.source = n /\ e.sourceHandle = handle} IN
  IF E = {} THEN NoNode ELSE (CHOOSE e \in E : TRUE).target

\* edges.find(e => e.source === n)?.target || null: the first edge of the node.
FirstTarget(f, n) ==
  LET E == {e \in FlowEdges(f) : e.source = n} IN
  IF E = {} THEN NoNode ELSE (CHOOSE e \in E : TRUE).target

\* nextEdge?.target || the target of the edge without a handle
HandleOrDefault(f, n, handle) ==
  IF Target(f, n, handle) # NoNode THEN Target(f, n, handle) ELSE Target(f, n, "")

\* The entry point of a flow whose session is at 'start': the start_trigger
\* node, else the target of an edge from 'start', else a node without
\* incoming edges.
Entry(f) ==
  LET triggers == {n \in DOMAIN FlowNodes(f) : FlowNodes(f)[n].type = "start_trigger"}
      orphans == {n \in DOMAIN FlowNodes(f) : \A e \in FlowEdges(f) : e.target # n}
  IN  IF triggers # {} THEN CHOOSE n \in triggers : TRUE
      ELSE IF Target(f, "start", "") # NoNode THEN Target(f, "start", "")
      ELSE IF orphans # {} THEN CHOOSE n \in orphans : TRUE
      ELSE NoNode

\* The wait node's check of the inbound message's type.
IsValidType(expectedType, actualType) ==
  \/ expectedType = "any"
  \/ expectedType = actualType /\ actualType \in {"text", "image", "document", "audio", "video"}
  \/ expectedType = "file" /\ actualType \in {"image", "video", "audio", "document"}

\* The button whose id or title is the trimmed, lower-cased input.
MatchedButton(data, text) == ToLowerCase(Trim(text)) = ToLowerCase(data.title)

\* The list row whose id is the trimmed input or whose title is it in lower
\* case; else the paging commands; else nothing.
MatchedListId(data, text) ==
  IF Trim(text) = data.title \/ ToLowerCase(Trim(text)) = ToLowerCase(data.title) THEN "row"
  ELSE IF Includes(ToLowerCase(Trim(text)), T_next) THEN "__next"
  ELSE "none"

\* An interpreter that goes on to the default edge after an invalid answer.
RetriedOnward(f, n) == Target(f, n, "")

\* An invalid answer to a button or list node that retries: the fallback
\* message is sent and the loop starts with the node itself.
Retried(f, n) == n

\* executeFlow up to its loop: the entry point of a session at 'start', then
\* the answer to the node the session was suspended on.  `at` is the node the
\* loop starts with and `vars` the variables; a wait node that retries on an
\* invalid message ends the call after touching the row.
Resumed(i) ==
  LET f == inv[i].sessionFlow
      n == IF inv[i].node = "start" THEN Entry(f) ELSE inv[i].node
      type == NodeType(f, n)
      data == NodeData(f, n)
      bag == inv[i].variables
      text == inv[i].text
  IN  CASE type = "wait" ->
             IF ~IsValidType(data.expectedType, inv[i].type) /\ data.retryOnInvalid
             THEN [return |-> TRUE, at |-> n, vars |-> bag]
             ELSE [return |-> FALSE, at |-> Target(f, n, ""), vars |-> bag \cup {"answer"}]
        [] type = "button" /\ "_pendingButtons" \in bag ->
             IF MatchedButton(data, text)
             THEN [return |-> FALSE, at |-> HandleOrDefault(f, n, "btn0"),
                   vars |-> bag \ {"_pendingButtons", "_retryOnInvalid"}]
             ELSE IF "_retryOnInvalid" \in bag
             THEN [return |-> FALSE, at |-> Retried(f, n), vars |-> bag]
             ELSE [return |-> FALSE, at |-> Target(f, n, ""), vars |-> bag \ {"_pendingButtons"}]
        [] type = "list" /\ "_pendingListIds" \in bag ->
             IF MatchedListId(data, text) = "row"
             THEN [return |-> FALSE, at |-> HandleOrDefault(f, n, "yes"),
                   vars |-> bag \ {"_pendingListIds", "_retryOnInvalid"}]
             ELSE IF MatchedListId(data, text) = "__next"
             THEN [return |-> FALSE, at |-> n, vars |-> bag]
             ELSE IF "_retryOnInvalid" \in bag
             THEN [return |-> FALSE, at |-> Retried(f, n), vars |-> bag]
             ELSE [return |-> FALSE, at |-> Target(f, n, ""), vars |-> bag \ {"_pendingListIds"}]
        [] OTHER -> [return |-> FALSE, at |-> n, vars |-> bag]

\* `from` and `held` note the node and the variables the call came in with.
BeginExecute(i) ==
  LET noted == [inv EXCEPT ![i].from = inv[i].node, ![i].held = inv[i].variables] IN
  /\ inv[i].pc = "execute"
  /\ IF Resumed(i).return
     THEN UpdateSession(noted, i, Touch, FALSE, "done")
     ELSE /\ inv' = [noted EXCEPT ![i].node = Resumed(i).at, ![i].variables = Resumed(i).vars,
                                  ![i].steps = 0, ![i].ran = {}, ![i].pc = "loop"]
          /\ sessions' = sessions
  /\ UNCHANGED <<xvars, bcast, recip, disp, attempts, issued, msgs, statusLog, nStatus, ivars, flows>>

\* What the execution of a node of a type can come to: the node's work is
\* done, its external call fails, or its code throws.
Outcomes(type) ==
  CASE type = "api" -> {"ok", "fail"}
    [] type = "variable" -> {"ok", "throw"}
    [] type = "agent" -> {"ok", "throw"}
    [] OTHER -> {"ok"}

\* An interpreter whose catch ends the flow.
ThrownEndsFlow(n) == NoNode

\* catch (nodeErr) { ...; break }: the current node after a node has thrown.
Thrown(n) == n

\* The session as a node stores it before it pauses the flow.
Paused(i, bag) == [currentNodeId |-> inv[i].node, variables |-> bag]

\* One turn of the loop: the node at currentNodeId is executed.
ExecuteNode(i, outcome) ==
  LET f == inv[i].sessionFlow
      n == inv[i].node
      type == NodeType(f, n)
      data == NodeData(f, n)
      bag == inv[i].variables
      counted == [inv EXCEPT ![i].steps = @ + 1, ![i].ran = @ \cup {n}]
      goto(next, newVars) ==
        /\ inv' = [counted EXCEPT ![i].node = next, ![i].variables = newVars]
        /\ sessions' = sessions
  IN
  /\ inv[i].pc = "loop"
  /\ n # NoNode /\ KeepsLooping(inv[i].steps)
  /\ outcome \in Outcomes(type)
  /\ CASE type = "missing" ->
            /\ inv' = [inv EXCEPT ![i].steps = @ + 1, ![i].pc = "exit"]
            /\ sessions' = sessions
       [] outcome = "throw" ->
            /\ inv' = [counted EXCEPT ![i].node = Thrown(n), ![i].threw = n, ![i].pc = "exit"]
            /\ sessions' = sessions
       [] type = "button" /\ outcome = "ok" ->
            UpdateSession(counted, i,
                          Paused(i, (bag \cup {"_pendingButtons"})
                                      \cup (IF data.retryOnInvalid THEN {"_retryOnInvalid"} ELSE {})),
                          TRUE, "done")
       [] type = "list" /\ outcome = "ok" ->
            UpdateSession(counted, i,
                          Paused(i, (bag \cup {"_pendingListIds"})
                                      \cup (IF data.retryOnInvalid THEN {"_retryOnInvalid"} ELSE {})),
                          TRUE, "done")
       [] type = "wait" /\ outcome = "ok" -> UpdateSession(counted, i, Paused(i, bag), TRUE, "done")
       [] type = "agent" /\ outcome = "ok" -> DeleteSession(counted, i, "done")
       [] type = "api" /\ outcome = "ok" -> goto(HandleOrDefault(f, n, "success"), bag)
       [] type = "api" /\ outcome = "fail" ->
            /\ inv' = [counted EXCEPT ![i].node = Target(f, n, "fail"),
                                      ![i].variables = bag \cup {"api_error"},
                                      ![i].failed = n]
            /\ sessions' = sessions
       [] type = "variable" /\ outcome = "ok" -> goto(FirstTarget(f, n), bag)
       [] OTHER -> goto(FirstTarget(f, n), bag)
  /\ UNCHANGED <<xvars, bcast, recip, disp, attempts, issued, msgs, statusLog, nStatus, ivars, flows>>

\* After the loop: without a current node the flow is over and the session is
\* deleted; else (step cap, break) the session is stored where it stopped.
FinishFlow(i) ==
  /\ \/ inv[i].pc = "exit"
     \/ inv[i].pc = "loop" /\ (inv[i].node = NoNode \/ ~KeepsLooping(inv[i].steps))
  /\ IF inv[i].node = NoNode
     THEN DeleteSession(inv, i, "done")
     ELSE UpdateSession(inv, i, Paused(i, inv[i].variables), FALSE, "done")
  /\ UNCHANGED <<xvars, bcast, recip, disp, attempts, issued, msgs, statusLog, nStatus, ivars, flows>>

\* processChatbotFlow has returned; the next inbound message gets a new call.
Return(i) ==
  /\ inv[i].pc \in {"done", "failed", "conflict", "closed"}
  /\ inv' = [inv EXCEPT ![i] = IdleInvocation]
  /\ UNCHANGED <<xvars, bcast, recip, disp, attempts, issued, msgs, statusLog, nStatus, ivars,
                 sessions, flows>>

\* The inbound messages of the customers: (text, type).
Inbound ==
  {<<T_MENU, "text">>, <<T_HI, "text">>, <<T_yes, "text">>,
   <<T_x, "text">>, <<T_next, "text">>, <<T_x, "image">>}

\* One call of processChatbotFlow, from the message to the return.
InterpretOnce(i, inbound) ==
  \/ \E m \in inbound : Invoke(i, "o1", "p1", m[1], m[2])
  \/ Lookup(i)
  \/ \E expired \in BOOLEAN : Resolve(i, expired)
  \/ \E day \in Days : \E hour \in Hours : Fallback(i, day, hour)
  \/ BeginExecute(i)
  \/ \E outcome \in {"ok", "fail", "throw"} : ExecuteNode(i, outcome)
  \/ FinishFlow(i)

\* The calls made for one message after the other.
InterpretNodes(i, inbound) == InterpretOnce(i, inbound) \/ Return(i)

NextExec == InterpretNodes("i1", Inbound)

\* The state of a tenant with the flows F and no session.
InitTenant(F) ==
  /\ InitInbound
  /\ InitExtra
  /\ sessions = {}
  /\ inv = [i \in Invs |-> IdleInvocation]
  /\ flows = F
  /\ bcast = [b \in Broadcasts |-> NoBroadcast]
  /\ recip = [b \in Broadcasts |-> [r \in RecIdx |-> NoRecipient]]
  /\ disp = [p \in Procs |-> IdleCall]
  /\ attempts = [b \in Broadcasts |-> [r \in RecIdx |-> 0]]
  /\ issued = {}
  /\ msgs = [m \in MsgIds |-> NoMessage]
  /\ statusLog = {}
  /\ nStatus = 0

InitExec == InitTenant({"fHI", "fMENU"})

\* One call at a time for one contact, on the flows fHI and fMENU: the
\* messages of the contact are handled one after the other.
SpecExec == InitExec /\ [][NextExec]_vars

\* The messages that two calls in progress at the same time handle.
InboundRace == {<<T_MENU, "text">>, <<T_yes, "text">>, <<T_x, "text">>}

NextRace == InterpretNodes("i1", InboundRace) \/ InterpretOnce("i2", InboundRace)

\* Two calls for one contact at the same time: handleIncomingMessage does not
\* await processChatbotFlow and nothing orders the calls of a contact.  The
\* messages handled by i1 follow one another; i2 handles one message, at any
\* moment of that.
InitRace == InitTenant({"fMENU"})

SpecRace == InitRace /\ [][NextRace]_vars

NextLoop == InterpretNodes("i1", {<<T_LOOP, "text">>, <<T_x, "text">>})

InitLoop == InitTenant({"fLOOP"})

\* One call at a time, on the cyclic flow fLOOP.  A call is an async function
\* that the runtime runs on whenever its awaited operation has settled: a step
\* that stays possible is taken.
SpecLoop == InitLoop /\ [][NextLoop]_vars /\ WF_vars(NextLoop)

\* ------------------------------------------------- button nodes, in detail
\* A button node has three slots btn0..btn2, each with a title and an id that
\* may be missing (<<>>).
Slots == 0..2

T_Yes == <<"Y", "e", "s">>
T_No == <<"N", "o">>
T_Menu == <<"M", "e", "n", "u">>

\* `btn_${i}`
DefaultButtonId(i) == <<"b", "t", "n", "_", CASE i = 0 -> "0" [] i = 1 -> "1" [] OTHER -> "2">>

\* What a slot may hold: nothing, a title, a title and an id.
SlotChoices(i) ==
  LET title == CASE i = 0 -> T_Yes [] i = 1 -> T_No [] OTHER -> T_Menu
      id == CASE i = 0 -> <<"y">> [] i = 1 -> <<"n">> [] OTHER -> <<"m">>
  IN  {[title |-> <<>>, id |-> <<>>], [title |-> title, id |-> <<>>], [title |-> title, id |-> id]}

\* The edges that leave the node: the handles that have one.  The target of
\* the edge with handle h is named after h.
HandleSets == {{"btn0", "btn1", "btn2", ""}, {"btn0", ""}, {"btn1", "btn2"}, {""}}

ButtonHandle(i) == CASE i = 0 -> "btn0" [] i = 1 -> "btn1" [] OTHER -> "btn2"

\* edges.find(...)?.target: the target of the node's edge with the handle.
ButtonTarget(handles, handle) ==
  IF handle \in handles THEN <<"to", handle>> ELSE NoNode

\* The texts answered to the buttons.
ButtonInputs ==
  {<<" ", "y", "e", "s", " ">>, <<"N", "O">>, <<"m", "e", "n", "u">>, <<"y">>,
   DefaultButtonId(0), DefaultButtonId(1), DefaultButtonId(2), T_x}

\* pendingButtons[k]: variables['_pendingButtons'] is buttons.map(b => b.reply.id),
\* the ids of the slots that have a title, in the order of the slots, an id
\* that is missing being `btn_${i}`; <<>> beyond its end.
PendingAt(data, k) ==
  LET titled == SelectSeq(<<0, 1, 2>>, LAMBDA i : data[i].title # <<>>)
  IN  IF k + 1 > Len(titled) THEN <<>>
      ELSE IF data[titled[k + 1]].id # <<>> THEN data[titled[k + 1]].id
      ELSE DefaultButtonId(titled[k + 1])

\* The loop over i = 0..2 of the button resume: the first slot whose id, title
\* or pending id at index i is the trimmed, lower-cased input; -1 without one.
matchedButtonIndex(data, input) ==
  LET userSelection == ToLowerCase(Trim(input))
      hit(i) == \/ data[i].id # <<>> /\ ToLowerCase(data[i].id) = userSelection
                \/ data[i].title # <<>> /\ ToLowerCase(data[i].title) = userSelection
                \/ PendingAt(data, i) # <<>> /\ ToLowerCase(PendingAt(data, i)) = userSelection
  IN  IF \E i \in Slots : hit(i) THEN CHOOSE i \in Slots : hit(i) /\ \A j \in Slots : hit(j) => i <= j
      ELSE -1

\* The button node is executed: the buttons are sent and the flow pauses with
\* _pendingButtons and _retryOnInvalid in the variables.
ExecuteButton ==
  /\ probe.pc = "button"
  /\ probe' = [probe EXCEPT !.pc = "pending",
                            !.variables = {"_pendingButtons"}
                               \cup (IF probe.retryOnInvalid THEN {"_retryOnInvalid"} ELSE {})]
  /\ UNCHANGED core

\* The next message resumes the node: executeFlow up to its loop.
ResumeButton(input) ==
  LET data == probe.data
      index == matchedButtonIndex(data, input)
      answered == [probe EXCEPT !.pc = "resumed", !.input = input, !.index = index]
  IN
  /\ probe.pc = "pending"
  /\ probe' =
       IF index >= 0
       THEN [answered EXCEPT
               !.selected_button = data[index].title,
               !.next = IF ButtonTarget(probe.handles, ButtonHandle(index)) # NoNode
                        THEN ButtonTarget(probe.handles, ButtonHandle(index))
                        ELSE ButtonTarget(probe.handles, ""),
               !.variables = (probe.variables \ {"_pendingButtons", "_retryOnInvalid"})
                                \cup {"selected_button"}]
       ELSE IF "_retryOnInvalid" \in probe.variables
       THEN [answered EXCEPT !.next = "same"]
       ELSE [answered EXCEPT !.next = ButtonTarget(probe.handles, ""),
                             !.variables = probe.variables \ {"_pendingButtons"}]
  /\ UNCHANGED core

\* A button node about to be executed, in each of its configurations.
InitButton ==
  /\ InitCore
  /\ \E d0 \in SlotChoices(0) : \E d1 \in SlotChoices(1) : \E d2 \in SlotChoices(2) :
       \E handles \in HandleSets : \E retry \in BOOLEAN :
         probe = [pc |-> "button",
                  data |-> [i \in Slots |-> CASE i = 0 -> d0 [] i = 1 -> d1 [] OTHER -> d2],
                  handles |-> handles,
                  retryOnInvalid |-> retry, variables |-> {}, input |-> <<>>, index |-> -1,
                  selected_button |-> <<>>, next |-> NoNode]

NextButton == ExecuteButton \/ \E input \in ButtonInputs : ResumeButton(input)

SpecButton == InitButton /\ [][NextButton]_vars

\* --------------------------------------------------- list nodes, in detail
\* const itemsPerPage = 9
itemsPerPage == 9

\* The lengths of the array a list node shows.
ListSizes == {10, 14, 19}

\* The list messages sent to one customer and the page reached are followed
\* up to these numbers.
MaxListMessages == 4
MaxListPage == 2

\* `row_${startIdx + idx}`: the number in the id of the row at position idx of
\* the page that starts at startIdx.
RowId(startIdx, idx) == startIdx + idx

\* rawArray.slice(startIdx, endIdx): the positions of the slice.
Slice(n, startIdx, endIdx) ==
  IF startIdx >= n THEN {}
  ELSE 0..((IF endIdx < n THEN endIdx ELSE n) - startIdx - 1)

\* The list node is executed on a dynamic array: the rows of the current page
\* and the paging rows are sent, their ids stored as _pendingListIds, and the
\* flow pauses.
ExecuteList ==
  LET currentPage == probe.page
      startIdx == currentPage * itemsPerPage
      endIdx == startIdx + itemsPerPage
  IN
  /\ probe.pc = "list"
  /\ probe.sent < MaxListMessages
  /\ probe' = [probe EXCEPT
                 !.pc = "pending",
                 !.rows = {RowId(startIdx, idx) : idx \in Slice(probe.n, startIdx, endIdx)},
                 !.next = endIdx < probe.n,
                 !.prev = currentPage > 0,
                 !.sent = @ + 1]
  /\ UNCHANGED core

\* The customer's selection resumes the node; the reply carries the id of the
\* row chosen, which may be a row of an earlier list message.
ResumeList(kind, row) ==
  LET noted == [probe EXCEPT !.last = kind, !.was = probe.page, !.tapped = row] IN
  /\ probe.pc = "pending"
  /\ probe' =
       CASE kind = "__next" -> [noted EXCEPT !.page = @ + 1, !.pc = "list"]
         [] kind = "__prev" -> [noted EXCEPT !.page = IF @ - 1 > 0 THEN @ - 1 ELSE 0, !.pc = "list"]
         [] OTHER ->
              IF row \in probe.rows
              THEN [noted EXCEPT !.selected_list_id = row, !.page = 0, !.pc = "selected"]
              ELSE IF probe.retryOnInvalid THEN [noted EXCEPT !.pc = "list"]
              ELSE [noted EXCEPT !.pc = "left"]
  /\ (kind = "__next") => probe.page < MaxListPage
  /\ UNCHANGED core

\* The flow comes to the list node anew: after a selection or after it left
\* the node by the default edge its edges lead back to the node, or the
\* customer sends the flow's trigger keyword while the list is pending and the
\* flow restarts with the session's variables.  The page is what _list_page
\* holds: a valid selection has deleted it (page 0), nothing else has.
ReenterList ==
  /\ probe.pc \in {"selected", "left", "pending"}
  /\ probe' = [probe EXCEPT !.pc = "list", !.last = "none", !.was = 0, !.tapped = -1,
                            !.selected_list_id = -1]
  /\ UNCHANGED core

\* A list node about to be executed for the first time, on an array of n items.
InitList ==
  /\ InitCore
  /\ \E n \in ListSizes : \E retry \in BOOLEAN :
       probe = [pc |-> "list", n |-> n, retryOnInvalid |-> retry, page |-> 0, rows |-> {},
                next |-> FALSE, prev |-> FALSE, sent |-> 0, last |-> "none", was |-> 0,
                tapped |-> -1, selected_list_id |-> -1]

NextList ==
  \/ ExecuteList
  \/ ReenterList
  \/ \E kind \in {"__next", "__prev"} : ResumeList(kind, -1)
  \/ \E row \in 0..18 : ResumeList("row", row)

SpecList == InitList /\ [][NextList]_vars

\* The sets of active flows of the tenants whose flow selection is examined:
\* with and without a catch-all flow, a start_trigger that accepts, a default
\* flow.
Tenants ==
  {{"fHI", "fMENU"}, {"fMENU", "fALL"}, {"fMENU", "fKW", "fHI"}, {"fANY", "fMENU"},
   {"fMENU"}, {"fKW", "fANY"}}

\* The texts a customer of these tenants sends.
SelectTexts == {T_HI, T_hi, T_hix, T_MENU, T_x}

InitSelect == \E F \in Tenants : InitTenant(F)

NextSelect ==
  \/ \E text \in SelectTexts : Invoke("i1", "o1", "p1", text, "text")
  \/ Lookup("i1")
  \/ \E expired \in BOOLEAN : Resolve("i1", expired)
  \/ \E day \in Days : \E hour \in Hours : Fallback("i1", day, hour)
  \/ \E outcome \in {"suspend", "terminate"} : ExecuteFlow("i1", outcome)
  \/ Return("i1")

\* The selection of the flow for the messages of one contact, one after the
\* other, at each of the tenants.
SpecSelect == InitSelect /\ [][NextSelect]_vars

\* ------------------------------------------------------------ webhook POSTs

\* One POST to /api/webhook/:orgId (or the legacy /api/webhook), as the
\* provider or anybody else can send it.
WebhookOrgs == {"o1", "ghost", "none"}
WebhookBodies == {"message", "status", "duplicate", "other", "malformed", "novalue"}
Signatures == {"valid", "wrong", "missing"}
NodeEnvs == {"development", "production"}

\* verifyWebhookSignature: the answer of the middleware to a request, "next"
\* where it lets the request through.
verifyWebhookSignature(method, signature, env) ==
  IF method = "POST"
  THEN IF signature \in {"missing", "wrong"}
       THEN IF env = "development" THEN "next" ELSE "401"
       ELSE "next"
  ELSE "403"

\* The middleware the router puts before handleWebhook on POST.
PostMiddleware == {}

\* The answer of the middleware m to the request held in probe.
MiddlewareAnswer(m) ==
  CASE m = "verifyWebhookSignature"
         -> verifyWebhookSignature("POST", probe.signature, probe.env)
    [] OTHER -> "next"

\* The router: the request reaches handleWebhook when every middleware before
\* it lets it through.
RoutePost ==
  /\ probe.pc = "arrived"
  /\ IF \A m \in PostMiddleware : MiddlewareAnswer(m) = "next"
     THEN probe' = [probe EXCEPT !.pc = "handleWebhook"]
     ELSE probe' = [probe EXCEPT !.pc = "rejected", !.res = Append(@, "401")]
  /\ UNCHANGED core

\* What a catch block of handleWebhook adds to the responses sent: it logs.
HandlerCatchResponds(res) == Append(res, "500")
HandlerCatch(res) == res

\* handleWebhook, first statement: res.sendStatus(200).
SendStatus ==
  /\ probe.pc = "handleWebhook"
  /\ probe' = [probe EXCEPT !.pc = "try", !.res = Append(@, "200")]
  /\ UNCHANGED core

\* handleWebhook, the try block: parse the raw body, leave when it is no
\* WhatsApp event, else start processIncomingMessage without waiting for it.
TryBlock ==
  /\ probe.pc = "try"
  /\ probe' =
       CASE probe.body = "malformed"
              -> [probe EXCEPT !.pc = "done", !.outcome = "handler_error",
                               !.res = HandlerCatch(@)]
         [] probe.body = "other"
              -> [probe EXCEPT !.pc = "done", !.outcome = "not_whatsapp"]
         [] OTHER
              -> [probe EXCEPT !.pc = "background", !.began = TRUE]
  /\ UNCHANGED core

\* processIncomingMessage in the background, with the .catch of its caller.
ProcessIncomingMessage ==
  /\ probe.pc = "background"
  /\ probe' =
       CASE probe.body = "novalue"
              -> [probe EXCEPT !.pc = "done", !.outcome = "no_value"]
         [] probe.org = "none"
              -> [probe EXCEPT !.pc = "done", !.outcome = "unknown_tenant"]
         [] probe.org = "ghost" \/ probe.throws
              -> [probe EXCEPT !.pc = "done", !.outcome = "background_error",
                               !.res = HandlerCatch(@)]
         [] probe.body = "duplicate"
              -> [probe EXCEPT !.pc = "done", !.outcome = "duplicate"]
         [] OTHER
              -> [probe EXCEPT !.pc = "done", !.outcome = "processed",
                               !.stored = TRUE]
  /\ UNCHANGED core

InitWebhook ==
  /\ InitCore
  /\ \E org \in WebhookOrgs : \E body \in WebhookBodies : \E signature \in Signatures :
       \E env \in NodeEnvs : \E throws \in BOOLEAN :
         probe = [pc |-> "arrived", org |-> org, body |-> body, signature |-> signature,
                  env |-> env, throws |-> throws, res |-> <<>>, began |-> FALSE,
                  outcome |-> "none", stored |-> FALSE]

NextWebhook == RoutePost \/ SendStatus \/ TryBlock \/ ProcessIncomingMessage

SpecWebhook == InitWebhook /\ [][NextWebhook]_vars

\* ------------------------------------------------------------------ mark-read

\* The messages an operator sent in the open conversation "c0" of the contact.
OutgoingConv(m) == "c0"

\* The message ids a mark-read call may name: inbound messages carry the id
\* of the delivery that stored them, outgoing ones are those of msgs.
ReadIdSets == {{"h1"}, {"h1", "m1"}, {"h1", "h2", "m2"}}

\* The direction filter of the two mark-read paths: markAsRead has
\* direction: INCOMING in its where clause, the mark_read event has none.
ReadDirections(via) == IF via = "http" THEN {"INCOMING"} ELSE {"INCOMING", "OUTGOING"}

\* message.updateMany({ where: { id in ids, conversationId [, direction] } }):
\* the inbound and the outgoing rows it matches.
MatchedInbound(via, c, ids) ==
  IF "INCOMING" \in ReadDirections(via)
  THEN {row.id : row \in {row \in inMsgs : row.id \in ids /\ row.conv = c}}
  ELSE {}

MatchedOutgoing(via, c, ids) ==
  IF "OUTGOING" \in ReadDirections(via)
  THEN {m \in MsgIds : m \in ids /\ msgs[m].status # "NONE" /\ OutgoingConv(m) = c}
  ELSE {}

\* unreadCount after a mark-read.
UnreadAfterReadDecrement(n) == n - 1
UnreadAfterRead(n) == 0

\* A mark-read call arrives, by PUT /messages/:conversationId/read ("http")
\* or by the mark_read event ("socket").  markAsRead answers 404 for a
\* conversation that is not there; the event handler's conversation.update
\* throws for it after an updateMany that matched nothing.
BeginMarkRead(via, c, ids) ==
  /\ probe.pc = "idle"
  /\ probe' = [probe EXCEPT !.via = via, !.conv = c, !.ids = ids,
                            !.pc = IF convs[c].status = "NONE" THEN "ended" ELSE "updateMany"]
  /\ UNCHANGED core

\* message.updateMany(... data: { isRead: true })
UpdateManyRead ==
  /\ probe.pc = "updateMany"
  /\ probe' = [probe EXCEPT !.pc = "resetUnread",
                 !.readIn = @ \cup MatchedInbound(probe.via, probe.conv, probe.ids)]
  /\ msgs' = [m \in MsgIds |->
       IF m \in MatchedOutgoing(probe.via, probe.conv, probe.ids)
       THEN [msgs[m] EXCEPT !.isRead = TRUE] ELSE msgs[m]]
  /\ UNCHANGED <<bcast, recip, disp, attempts, issued, statusLog, nStatus, ivars, fvars>>

\* conversation.update(... data: { unreadCount: 0 })
ResetUnread ==
  /\ probe.pc = "resetUnread"
  /\ convs' = [convs EXCEPT ![probe.conv].unreadCount = UnreadAfterRead(@)]
  /\ probe' = [probe EXCEPT !.pc = "ended"]
  /\ UNCHANGED <<bcast, recip, disp, attempts, issued, msgs, statusLog, nStatus,
                 contacts, inMsgs, hnd, previewLog, chatbot, fvars>>

\* The call is over; the next one may come.
EndMarkRead ==
  /\ probe.pc = "ended"
  /\ probe' = [probe EXCEPT !.pc = "idle"]
  /\ UNCHANGED core

\* A tenant with or without a broadcast sent to the contact; the contact may
\* have an open conversation in which the operator has sent two messages.
InitRead ==
  /\ InitFlow
  /\ \E history \in {"none", "sent"} : \E open \in BOOLEAN :
       /\ TenantAt(history, TRUE, open)
       /\ msgs = [m \in MsgIds |->
            IF open THEN [NoMessage EXCEPT !.status = "SENT"] ELSE NoMessage]
  /\ inMsgs = {}
  /\ hnd = [h \in Handlers |-> IdleHandler]
  /\ previewLog = {}
  /\ chatbot = {}
  /\ statusLog = {}
  /\ nStatus = 0
  /\ probe = [pc |-> "idle", via |-> "http", conv |-> "c0", ids |-> {}, readIn |-> {}]

NextRead ==
  \/ \E h \in Handlers : Ingest(h)
  \/ \E via \in {"http", "socket"} : \E c \in ConvIds : \E ids \in ReadIdSets :
       BeginMarkRead(via, c, ids)
  \/ UpdateManyRead
  \/ ResetUnread
  \/ EndMarkRead

SpecRead == InitRead /\ [][NextRead]_vars

\* ------------------------------------------- status webhooks of another tenant

\* A second tenant: the status webhooks in this part arrive on its URL,
\* POST /api/webhook/o2, and carry any message id the provider has issued.
ForeignOrg == "o2"

ForeignStatusWebhook ==
  \E id \in issued : \E s \in Statuses : HandleMessageStatus(ForeignOrg, id, s)

\* One broadcast of tenant o1, one operator message of either tenant, and the
\* status webhooks received for tenant o2.
NextForeign ==
  \/ \E b \in Broadcasts : \E n \in RecIdx : CreateBroadcast(b, n, FALSE, TRUE)
  \/ Dispatch("create")
  \/ \E o \in Orgs \cup {ForeignOrg} : SendMessage("m1", o, TRUE)
  \/ ForeignStatusWebhook

SpecForeign == Init /\ [][NextForeign]_vars

\* --------------------------------------------------------- realtime sockets

\* Two operators with an authenticated socket each, one of tenant o1 and one
\* of tenant o2; the conversation ids they name in their events.
Sockets == {"s1", "s2"}
SocketOrg(s) == IF s = "s1" THEN "o1" ELSE ForeignOrg
SocketConvs == {"c0", "h1"}

\* Every conversation row of the model belongs to tenant o1.
ConversationOrg(c) == "o1"

\* The sockets in a room.
Members(room) == {s \in Sockets : <<s, room>> \in probe.rooms}

\* io.on('connection'): the socket joins the room of its tenant and its own.
Connect(s) ==
  /\ s \notin probe.connected
  /\ probe' = [probe EXCEPT !.connected = @ \cup {s},
                            !.rooms = @ \cup {<<s, <<"org", SocketOrg(s)>>>>,
                                              <<s, <<"user", s>>>>}]
  /\ UNCHANGED core

\* socket.on('join_conversation')
JoinConversation(s, c) ==
  /\ s \in probe.connected
  /\ probe' = [probe EXCEPT !.rooms = @ \cup {<<s, <<"conversation", c>>>>}]
  /\ UNCHANGED core

\* socket.on('leave_conversation')
LeaveConversation(s, c) ==
  /\ s \in probe.connected
  /\ probe' = [probe EXCEPT !.rooms = @ \ {<<s, <<"conversation", c>>>>}]
  /\ UNCHANGED core

\* socket.to(room).emit(event): every socket of the room but the sender
\* receives the event.
EmitTo(s, c, event) ==
  {<<t, event, c>> : t \in Members(<<"conversation", c>>) \ {s}}

\* socket.on('typing_start') and socket.on('typing_stop')
Typing(s, c) ==
  /\ s \in probe.connected
  /\ probe' = [probe EXCEPT !.received = @ \cup EmitTo(s, c, "typing")]
  /\ UNCHANGED core

\* socket.on('mark_read'): updateMany, the reset of unreadCount (which throws
\* for a conversation that is not there) and the messages_read event.
SocketMarkRead(s, c, ids) ==
  /\ s \in probe.connected
  /\ convs[c].status # "NONE"
  /\ msgs' = [m \in MsgIds |->
       IF m \in MatchedOutgoing("socket", c, ids)
       THEN [msgs[m] EXCEPT !.isRead = TRUE] ELSE msgs[m]]
  /\ convs' = [convs EXCEPT ![c].unreadCount = UnreadAfterRead(@)]
  /\ probe' = [probe EXCEPT !.readIn = @ \cup MatchedInbound("socket", c, ids),
                            !.received = @ \cup EmitTo(s, c, "messages_read")]
  /\ UNCHANGED <<bcast, recip, disp, attempts, issued, statusLog, nStatus,
                 contacts, inMsgs, hnd, previewLog, chatbot, fvars>>

\* socket.on('disconnect'): the socket is in no room any more.
Disconnect(s) ==
  /\ s \in probe.connected
  /\ probe' = [probe EXCEPT !.connected = @ \ {s},
                            !.rooms = {x \in @ : x[1] # s}]
  /\ UNCHANGED core

\* Tenant o1 has the open conversation c0 with two operator messages.
InitSocket ==
  /\ InitFlow
  /\ TenantAt("none", TRUE, TRUE)
  /\ msgs = [m \in MsgIds |-> [NoMessage EXCEPT !.status = "SENT"]]
  /\ inMsgs = {}
  /\ hnd = [h \in Handlers |-> IdleHandler]
  /\ previewLog = {}
  /\ chatbot = {}
  /\ statusLog = {}
  /\ nStatus = 0
  /\ probe = [pc |-> "sockets", connected |-> {}, rooms |-> {}, received |-> {},
              readIn |-> {}]

NextSocket ==
  \E s \in Sockets :
    \/ Connect(s)
    \/ Disconnect(s)
    \/ \E c \in SocketConvs :
         \/ JoinConversation(s, c)
         \/ LeaveConversation(s, c)
         \/ Typing(s, c)
         \/ \E ids \in ReadIdSets : SocketMarkRead(s, c, ids)

SpecSocket == InitSocket /\ [][NextSocket]_vars

\* ------------------------------------------------- interrupted dispatches

\* The process stops while a scheduler tick is inside startBroadcast: the call
\* and the tasks of its batch are gone, the rows stay as they were written.
Interrupt(p) ==
  /\ disp[p].pc \in {"fetch", "mark", "batch"}
  /\ disp' = [disp EXCEPT ![p].pc = "stopped"]
  /\ UNCHANGED <<xvars, bcast, recip, attempts, issued, msgs, statusLog, nStatus, ivars, fvars>>

\* A minute tick of the scheduler after the process has come up again.
LaterTick(b) ==
  /\ disp["tick1"].pc = "stopped"
  /\ SchedulerTick("tick2", b)

\* A scheduled broadcast, the tick that starts it, an interruption of that
\* tick, and the ticks after it.
NextResume ==
  \/ \E b \in Broadcasts : \E n \in RecIdx : CreateBroadcast(b, n, TRUE, TRUE)
  \/ \E b \in Broadcasts : SchedulerTick("tick1", b)
  \/ Interrupt("tick1")
  \/ \E b \in Broadcasts : LaterTick(b)
  \/ \E t \in Ticks : Dispatch(t)

SpecResume == Init /\ [][NextResume]_vars /\ WF_vars(NextResume)

\* --------------------------------------------------- scheduled notifications

\* scheduleAbandonedCart calls; a ScheduledNotification row carries the id of
\* the call that created it.  The external ids are checkout tokens.
NotifIds == {"s1", "s2"}
ExternalIds == {"x1", "x2"}

NoNotification ==
  [status |-> "NONE", externalId |-> "none", error |-> "none", outcome |-> "none",
   cancelled |-> FALSE]

\* findFirst / findMany({ externalId, status: 'PENDING' })
PendingFor(x) ==
  {id \in NotifIds : probe.rows[id].status = "PENDING" /\ probe.rows[id].externalId = x}

\* scheduleAbandonedCart, the check for a pending reminder of the checkout.
ScheduleFind(s, x) ==
  /\ probe.call[s].pc = "idle"
  /\ \E found \in (IF PendingFor(x) = {} THEN {"none"} ELSE PendingFor(x)) :
       probe' = [probe EXCEPT !.call[s] = [pc |-> "write", externalId |-> x,
                                           existing |-> found]]
  /\ UNCHANGED core

\* scheduleAbandonedCart, the write: the update of the reminder found (payload
\* and scheduledAt only) or the create of a new PENDING row.
ScheduleWrite(s) ==
  /\ probe.call[s].pc = "write"
  /\ probe' =
       IF probe.call[s].existing # "none"
       THEN [probe EXCEPT !.call[s].pc = "done"]
       ELSE [probe EXCEPT !.call[s].pc = "done",
                          !.rows[s] = [NoNotification EXCEPT
                                         !.status = "PENDING",
                                         !.externalId = probe.call[s].externalId]]
  /\ UNCHANGED core

\* cancelScheduledNotification: updateMany on the PENDING rows of the checkout.
CancelScheduledNotification(x) ==
  /\ PendingFor(x) # {}
  /\ probe' = [probe EXCEPT !.rows = [id \in NotifIds |->
                 IF id \in PendingFor(x)
                 THEN [probe.rows[id] EXCEPT !.status = "CANCELLED", !.cancelled = TRUE]
                 ELSE probe.rows[id]]]
  /\ UNCHANGED core

\* The cron callback of initIntegrationScheduler: findMany of the PENDING rows
\* that are due (every reminder of the model is due).
TickSelect(t) ==
  /\ probe.tick[t].pc = "idle"
  /\ LET due == {id \in NotifIds : probe.rows[id].status = "PENDING"} IN
       /\ due # {}
       /\ probe' = [probe EXCEPT !.tick[t] = [pc |-> "loop", batch |-> due,
                                              cur |-> "none", outcome |-> "none"]]
  /\ UNCHANGED core

\* One turn of the for loop up to the send: JSON.parse of the payload throws
\* ("throw"), or sendOrderNotification returns the result of
\* sendWhatsAppMessage, success true ("ok") or false ("err").
TickSend(t, id, outcome) ==
  /\ probe.tick[t].pc = "loop"
  /\ id \in probe.tick[t].batch
  /\ probe' = [probe EXCEPT !.tick[t].pc = "mark", !.tick[t].cur = id,
                            !.tick[t].outcome = outcome,
                            !.sends[id] = IF outcome = "throw" THEN @ ELSE @ + 1]
  /\ UNCHANGED core

\* The status written after the send returned: the result is not looked at.
StatusAfterSend(outcome) == "SENT"

\* The rest of the turn: scheduledNotification.update({ where: { id } }) to
\* SENT, or in the catch block to FAILED with the error message.
TickMark(t) ==
  LET id == probe.tick[t].cur
      outcome == probe.tick[t].outcome
      left == probe.tick[t].batch \ {id} IN
  /\ probe.tick[t].pc = "mark"
  /\ probe' = [probe EXCEPT
       !.rows[id].status = IF outcome = "throw" THEN "FAILED" ELSE StatusAfterSend(outcome),
       !.rows[id].error = IF outcome = "throw" THEN "exception" ELSE @,
       !.rows[id].outcome = outcome,
       !.tick[t].batch = left,
       !.tick[t].pc = IF left = {} THEN "done" ELSE "loop"]
  /\ UNCHANGED core

InitNotify ==
  /\ InitCore
  /\ probe = [pc |-> "notify",
              rows |-> [id \in NotifIds |-> NoNotification],
              call |-> [s \in NotifIds |-> [pc |-> "idle", externalId |-> "none",
                                            existing |-> "none"]],
              tick |-> [t \in Ticks |-> [pc |-> "idle", batch |-> {}, cur |-> "none",
                                         outcome |-> "none"]],
              sends |-> [id \in NotifIds |-> 0]]

NextNotify ==
  \/ \E s \in NotifIds : \E x \in ExternalIds : ScheduleFind(s, x)
  \/ \E s \in NotifIds : ScheduleWrite(s)
  \/ \E x \in ExternalIds : CancelScheduledNotification(x)
  \/ \E t \in Ticks : TickSelect(t)
  \/ \E t \in Ticks : \E id \in NotifIds : \E outcome \in {"ok", "err", "throw"} :
       TickSend(t, id, outcome)
  \/ \E t \in Ticks : TickMark(t)

SpecNotify == InitNotify /\ [][NextNotify]_vars

\* ------------------------------------------------- the order of two deliveries

\* Two webhook POSTs with one message each for the contact's open
\* conversation: wamid.X arrives first (delivery h1), wamid.Y after it
\* (delivery h2).  handleWebhook does not await processIncomingMessage, so the
\* second handler starts while the first may still be awaiting a query or,
\* before message.create, the media URL of its message (getMediaUrl).
ArriveFirst == Deliver("h1", "wamid.X", "p1")

ArriveSecond ==
  /\ hnd["h1"].pc # "idle"
  /\ Deliver("h2", "wamid.Y", "p1")

\* A handler that has started takes its next step.
HandlerStep(h) ==
  /\ hnd[h].pc # "idle"
  /\ Ingest(h)

InitOrder ==
  /\ InitIngest
  /\ convs["c0"].status = "OPEN"

NextOrder ==
  \/ ArriveFirst
  \/ ArriveSecond
  \/ \E h \in Handlers : HandlerStep(h)

SpecOrder == InitOrder /\ [][NextOrder]_vars

\* ------------------------------------------- nodes with typed outputs, in detail

\* The outgoing edges of one node, in the order of the flow's edge array: the
\* sourceHandle of each ("" for an edge without one); edge k leads to
\* TargetOf(k).
OutputHandles == {"success", "fail", "", "default", "kw_0", "kw_1"}
EdgeLists ==
  {<<>>} \cup {<<a>> : a \in OutputHandles}
         \cup {<<a, b>> : a \in OutputHandles, b \in OutputHandles}
TargetOf(k) == <<"to", k>>

\* edges.find(e => e.source === node.id && <sourceHandle in handles>)?.target || null
FindEdge(edges, handles) ==
  LET K == {k \in 1..Len(edges) : edges[k] \in handles} IN
  IF K = {} THEN NoNode ELSE TargetOf(CHOOSE k \in K : \A j \in K : k <= j)

\* The statements after the switch: edges.find(e => e.source === node.id),
\* the first edge of the node whatever its handle.
AfterSwitch(edges) == FindEdge(edges, OutputHandles)

\* The outputs a node of the type can select.
TypedOutputs(type) ==
  CASE type = "start_trigger" -> {"kw_0", "kw_1", "default"}
    [] OTHER -> {"success", "fail"}

\* nextNodeId as the case of the node sets it.
CaseTarget(type, edges, output) ==
  CASE type = "payment" -> FindEdge(edges, {output})
    [] type = "sql" ->
         IF output = "success"
         THEN IF FindEdge(edges, {"success"}) # NoNode
              THEN FindEdge(edges, {"success"}) ELSE FindEdge(edges, {""})
         ELSE FindEdge(edges, {"fail"})
    [] OTHER ->
         IF output # "default" /\ FindEdge(edges, {output}) # NoNode
         THEN FindEdge(edges, {output}) ELSE FindEdge(edges, {"default", ""})

\* How the case ends: payment with break, sql and start_trigger with
\* `if (currentNodeId) continue; break`.  After a break the statements after
\* the switch run.
Continues(type, target) == type # "payment" /\ target # NoNode

ExecuteTyped(output) ==
  LET target == CaseTarget(probe.type, probe.edges, output) IN
  /\ probe.pc = "node"
  /\ output \in TypedOutputs(probe.type)
  /\ probe' = [probe EXCEPT !.pc = "left", !.output = output,
                            !.next = IF Continues(probe.type, target)
                                     THEN target ELSE AfterSwitch(probe.edges)]
  /\ UNCHANGED core

InitTyped ==
  /\ InitCore
  /\ \E type \in {"payment", "sql", "start_trigger"} : \E edges \in EdgeLists :
       probe = [pc |-> "node", type |-> type, edges |-> edges, output |-> "none",
                next |-> NoNode]

NextTyped == \E output \in {"success", "fail", "kw_0", "kw_1", "default"} : ExecuteTyped(output)

SpecTyped == InitTyped /\ [][NextTyped]_vars

\* --------------------------------------------------- the webhook envelope

\* An envelope has one or two entries, each with one or two changes, each
\* change with one or two inbound messages.  A message is named by its place
\* <<entry, change, index>> and is new, a duplicate of a stored message, or
\* one whose handling throws ("failing").
EnvelopeSizes == 1..2
MessageKinds == {"new", "duplicate", "failing"}

\* The messages of the envelope, and those of one change.
EnvelopeMessages ==
  {p \in (1..probe.entries) \X (1..probe.changes) \X (1..probe.messages) : TRUE}

KindOf(p) == IF p[1] = 1 /\ p[2] = 1 THEN probe.kinds[p[3]] ELSE "new"

\* processIncomingMessage, up to the loops: webhookData.entry?.[0],
\* entry.changes?.[0], and the messages of that one value.
ReadValue ==
  /\ probe.pc = "start"
  /\ probe' = [probe EXCEPT !.pc = "loop", !.entry = 1, !.change = 1, !.k = 1]
  /\ UNCHANGED core

\* One turn of `for (const message of messages) await handleIncomingMessage`:
\* the message is stored, or message.create is rejected for a duplicate, or
\* the handler throws; an exception leaves the loop and is logged by the
\* .catch of handleWebhook.
HandleEnvelopeMessage ==
  LET p == <<probe.entry, probe.change, probe.k>> IN
  /\ probe.pc = "loop"
  /\ probe.k <= probe.messages
  /\ probe' = IF KindOf(p) = "new"
              THEN [probe EXCEPT !.stored = @ \cup {p}, !.k = @ + 1]
              ELSE [probe EXCEPT !.pc = "caught"]
  /\ UNCHANGED core

\* The loop is through: return { processed: true }.
ReturnProcessed ==
  /\ probe.pc = "loop"
  /\ probe.k > probe.messages
  /\ probe' = [probe EXCEPT !.pc = "done"]
  /\ UNCHANGED core

InitEnvelope ==
  /\ InitCore
  /\ \E entries \in EnvelopeSizes : \E changes \in EnvelopeSizes :
       \E messages \in EnvelopeSizes : \E kinds \in [1..2 -> MessageKinds] :
         probe = [pc |-> "start", entries |-> entries, changes |-> changes,
                  messages |-> messages, kinds |-> kinds, entry |-> 0, change |-> 0,
                  k |-> 0,
                  stored |-> {p \in {<<1, 1, 1>>, <<1, 1, 2>>} :
                                p[3] <= messages /\ kinds[p[3]] = "duplicate"}]

NextEnvelope == ReadValue \/ HandleEnvelopeMessage \/ ReturnProcessed

SpecEnvelope == InitEnvelope /\ [][NextEnvelope]_vars

\* ------------------------------------------------------------------ claims
Rank(status) ==
  CASE status = "SENT" -> 1
    [] status = "DELIVERED" -> 2
    [] status = "READ" -> 3
    [] OTHER -> 0

\* The statuses received so far for provider message id `id`.
Received(id) == {s \in Statuses : <<id, s>> \in statusLog}

\* The furthest-advanced status of a set of statuses on sent -> delivered -> read.
Furthest(S) == CHOOSE s \in S : \A t \in S : Rank(s) >= Rank(t)

\* C1: the stored status of a message is the furthest-advanced status received
\* so far on pending -> sent -> delivered -> read (a later sent or delivered
\* never overwrites read, a later sent never overwrites delivered); stated for
\* the messages that received no failed status.
C1_FurthestStatus ==
  \A m \in MsgIds :
    (msgs[m].waMessageId # NoId /\ "FAILED" \notin Received(msgs[m].waMessageId))
      => msgs[m].status = Furthest(Received(msgs[m].waMessageId) \cup {"SENT"})

\* The recipients of b for which a status webhook `s` was received.
RecipientsWith(b, s) ==
  {r \in RecIdx : \E id \in issued : /\ Len(id) = 3
                                     /\ id[2] = b /\ id[3] = r
                                     /\ <<id, s>> \in statusLog}

\* C3: the delivered, read and failed counters of a broadcast count each
\* recipient at most once, whatever status webhooks are delivered again.
C3_CountedOnce ==
  \A b \in Broadcasts :
    /\ bcast[b].deliveredCount <= Cardinality(RecipientsWith(b, "DELIVERED"))
    /\ bcast[b].readCount <= Cardinality(RecipientsWith(b, "READ"))
    /\ bcast[b].failedCount <= Cardinality(RecipientsWith(b, "FAILED"))
          + Cardinality({r \in RecIdx : recip[b][r].error = "provider"})

\* C4: for every broadcast sentCount >= deliveredCount >= readCount.
C4_CounterOrder ==
  \A b \in Broadcasts :
    /\ bcast[b].sentCount >= bcast[b].deliveredCount
    /\ bcast[b].deliveredCount >= bcast[b].readCount

\* C5: two recipients A (index 1) and B (index 2) were sent; after the webhooks
\* delivered(A) and read(B) the counters are sent 2, delivered 2, read 1,
\* failed 0, A is delivered and B is read.
C5_Precondition ==
  /\ bcast["b1"].totalRecipients = 2
  /\ disp["create"].pc = "done"
  /\ recip["b1"][1].waMessageId = Wamid("create", "b1", 1)
  /\ recip["b1"][2].waMessageId = Wamid("create", "b1", 2)
  /\ nStatus = 2
  /\ statusLog = {<<Wamid("create", "b1", 1), "DELIVERED">>,
                  <<Wamid("create", "b1", 2), "READ">>}

C5_ReadCountsAsDelivered ==
  C5_Precondition =>
    /\ bcast["b1"].sentCount = 2
    /\ bcast["b1"].deliveredCount = 2
    /\ bcast["b1"].readCount = 1
    /\ bcast["b1"].failedCount = 0
    /\ recip["b1"][1].status = "DELIVERED"
    /\ recip["b1"][2].status = "READ"

\* No task of a dispatch of b is between the provider's answer and the counter.
NoSendPartWay(b) ==
  \A p \in Procs : \A r \in RecIdx :
    disp[p].bid = b => disp[p].task[r] \notin {"rec", "inc"}

\* C6: whenever no recipient send is part-way through its updates, sentCount
\* is the number of recipients that hold a provider message id.
C6_SentCountMatches ==
  \A b \in Broadcasts :
    NoSendPartWay(b) =>
      bcast[b].sentCount = Cardinality({r \in RecIdx : recip[b][r].waMessageId # NoId})

\* C7: a startBroadcast call that finds the broadcast neither pending nor
\* scheduled returns at once: it sends nothing and leaves the broadcast, its
\* counters and its recipients as they are.
C7_StartIsNoOp ==
  [][\A p \in Procs :
       (/\ disp[p].pc = "fetch"
        /\ bcast[disp[p].bid].status \notin {"PENDING", "SCHEDULED"}
        /\ disp'[p] # disp[p])
       => /\ disp'[p].pc = "returned"
          /\ bcast' = bcast /\ recip' = recip
          /\ attempts' = attempts /\ issued' = issued]_vars

\* A start attempt that fetched the broadcast while it was processing (another
\* start was under way) has returned at the guard.
C7_Witness ==
  \E p \in Procs : /\ disp[p].pc = "returned"
                   /\ disp[p].status = "PROCESSING"

\* C8: once a broadcast is cancelled under a running dispatch, the dispatch
\* starts no later batch and does not move the broadcast out of cancelled.
C8_CancelStopsDispatch ==
  [][\A p \in Procs :
       (disp[p].pc = "batch" /\ bcast[disp[p].bid].status = "CANCELLED")
       => /\ bcast'[disp[p].bid].status = "CANCELLED"
          /\ disp'[p].i = disp[p].i]_vars

\* C9: when a dispatch has finished, the broadcast is completed and every
\* recipient was attempted exactly once and is sent or failed.
C9_EveryRecipientOnce ==
  \A p \in Procs :
    disp[p].pc = "done" =>
      LET b == disp[p].bid IN
      /\ bcast[b].status = "COMPLETED"
      /\ \A r \in RecIdx :
           r <= bcast[b].totalRecipients =>
             /\ attempts[b][r] = 1
             /\ recip[b][r].status \in {"SENT", "FAILED"}

\* Both deliveries carried inbound message w and both handlers have ended.
DeliveredTwice(w) ==
  \A h \in Handlers : hnd[h].waMessageId = w /\ hnd[h].pc \in {"done", "failed", "rejected"}

RowsOf(w) == {row \in inMsgs : row.waMessageId = w}
PreviewUpdatesOf(w) == {u \in previewLog : u[2] = w}
InvocationsOf(w) == {x \in chatbot : x[2] = w}

RECURSIVE SumUnread(_)
SumUnread(C) ==
  IF C = {} THEN 0
  ELSE LET c == CHOOSE x \in C : TRUE IN convs[c].unreadCount + SumUnread(C \ {c})

\* The chatbot is switched off for the conversation of the row of w.
ChatbotOffFor(w) ==
  \E row \in RowsOf(w) :
    /\ convs[row.conv].broadcastId # NoBroadcastId
    /\ bcast[convs[row.conv].broadcastId].enableChatbot = FALSE

\* C2 as stated: the same inbound message delivered twice gives exactly one
\* message row, one conversation preview update, the unread counter raised by
\* one, and exactly one interpreter invocation.
C2_DuplicateOnce ==
  \A w \in InboundIds :
    DeliveredTwice(w) =>
      /\ Cardinality(RowsOf(w)) = 1
      /\ Cardinality(PreviewUpdatesOf(w)) = 1
      /\ SumUnread(ConvIds) = 1
      /\ Cardinality(InvocationsOf(w)) = 1

\* C2 as amended: one row, one preview update, the unread counter raised by
\* one, and one interpreter invocation unless the conversation is attributed
\* to a broadcast with the chatbot switched off, and then none.
C2_DuplicateOnceAmended ==
  \A w \in InboundIds :
    DeliveredTwice(w) =>
      /\ Cardinality(RowsOf(w)) = 1
      /\ Cardinality(PreviewUpdatesOf(w)) = 1
      /\ SumUnread(ConvIds) = 1
      /\ Cardinality(InvocationsOf(w)) = IF ChatbotOffFor(w) THEN 0 ELSE 1

\* The second delivery of the message was rejected by the unique index after
\* the first was stored.
C2_Witness ==
  /\ DeliveredTwice("wamid.X")
  /\ \E h \in Handlers : hnd[h].pc = "rejected"
  /\ \E h \in Handlers : hnd[h].pc = "done"

\* C10: at most one flow session per (tenant, contact).
C10_OneSessionPerContact ==
  \A x \in sessions : \A y \in sessions :
    (x.contact = y.contact /\ x.org = y.org) => x = y

\* Two invocations raced to create the session of a contact: one row exists
\* and the other insert was rejected.
C10_Witness ==
  \E i \in Invs : /\ inv[i].pc = "conflict"
                  /\ \E x \in sessions : x.contact = inv[i].contact /\ x.id # i

\* C11: an invocation that found no session for its contact and whose insert
\* is rejected because another invocation's insert won does not end there: it
\* adopts the winner's session and executes the flow.
C11_LoserAdoptsWinner ==
  \A i \in Invs : ~(inv[i].pc = "conflict" /\ inv[i].expired = "none")

\* The calls that are inside executeFlow.
Executing(i) == inv[i].pc \in {"execute", "loop", "exit"}

\* A step in which call i writes the current node or the variables of a row,
\* or deletes it.
WritesSession(i) ==
  /\ Executing(i)
  /\ \E x \in sessions : x.id = inv[i].session /\ x \notin sessions'

\* C12: flow execution is single-threaded per (tenant, contact): two calls for
\* the same contact are never inside executeFlow at the same time, and a call
\* whose copy of the session is older than another call's write never writes
\* the session's current node or variables (no lost session update).
C12_SingleThreaded ==
  /\ [](\A i, j \in Invs :
         (i # j /\ inv[i].contact = inv[j].contact /\ inv[i].org = inv[j].org)
           => ~(Executing(i) /\ Executing(j)))
  /\ [][\A i \in Invs : inv[i].stale => ~WritesSession(i)]_vars

\* C13: every call ends after executing at most 30 nodes, also on the cyclic
\* flow; a call stopped by the cap leaves the session in the table, stored
\* with the node at which it stopped and the variables gathered so far.
C13_StepCap ==
  /\ [](\A i \in Invs : inv[i].steps <= 30)
  /\ \A i \in Invs : (inv[i].pc = "loop") ~> (inv[i].pc \in {"done", "failed"})
  /\ [](\A i \in Invs :
         (inv[i].pc = "done" /\ inv[i].steps = 30 /\ inv[i].node # NoNode)
           => \E x \in sessions : /\ x.id = inv[i].session
                                  /\ x.currentNodeId = inv[i].node
                                  /\ x.variables = inv[i].variables)

\* A call on the cyclic flow has been stopped by the cap after 30 nodes, with
\* a variable gathered on the way.
C13_Witness ==
  \E i \in Invs : /\ inv[i].pc = "done" /\ inv[i].steps = 30
                   /\ inv[i].sessionFlow = "fLOOP" /\ inv[i].node \in {"c1", "c2"}
                   /\ "api_error" \in inv[i].variables
                   /\ \E x \in sessions : x.id = inv[i].session /\ x.currentNodeId = inv[i].node

\* Call i came in on a session suspended on a wait, button or list node that
\* retries on invalid input, with a message that has no trigger keyword and is
\* invalid for the node.
InvalidInput(i) ==
  LET f == inv[i].sessionFlow
      n == inv[i].from
      data == NodeData(f, n)
  IN  /\ inv[i].rule = "session" /\ HasNode(f, n) /\ data.retryOnInvalid
      /\ \/ NodeType(f, n) = "wait" /\ ~IsValidType(data.expectedType, inv[i].type)
         \/ /\ NodeType(f, n) = "button" /\ {"_pendingButtons", "_retryOnInvalid"} \subseteq inv[i].held
            /\ ~MatchedButton(data, inv[i].text)
         \/ /\ NodeType(f, n) = "list" /\ {"_pendingListIds", "_retryOnInvalid"} \subseteq inv[i].held
            /\ MatchedListId(data, inv[i].text) # "row"

C15_SessionDeletedAtEnd ==
  \A i \in Invs :
    (/\ inv[i].pc = "done" /\ inv[i].steps > 0
     /\ \/ inv[i].node = NoNode
        \/ NodeType(inv[i].sessionFlow, inv[i].node) = "agent" /\ inv[i].node \in inv[i].ran)
      => SessionsOf(inv[i].contact, inv[i].org) = {}

\* C16: a call that found the contact's session older than its timeout, for a
\* message without trigger keyword, discards the session: with a fallback flow
\* a new session is created and executed (the insert is not rejected), and
\* without one the call ends with no session row left for the contact.
C16_StaleSessionDiscarded ==
  \A i \in Invs :
    inv[i].expired # "none"
      => /\ inv[i].pc # "conflict"
         /\ (inv[i].pc = "done" /\ inv[i].selected = NoFlow)
              => SessionsOf(inv[i].contact, inv[i].org) = {}

\* C17: working hours gate every flow start: a call that starts a flow with a
\* working-hours policy (by trigger keyword, catch-all, start_trigger or
\* default) has checked the policy against the clock and found it open.
C17_WorkingHoursGate ==
  \A i \in Invs :
    (/\ inv[i].pc = "execute" /\ inv[i].rule # "session"
     /\ FlowDef(inv[i].sessionFlow).workingHours.set)
      => inv[i].hours = "open"

\* The rules of the selection priority, as sets of the tenant's active flows.
KeywordFlows(text) == {f \in flows : FlowDef(f).triggerKeyword = ToUpperCase(Trim(text))}

CatchAllFlows == {f \in flows : FlowDef(f).triggerKeyword = T_star}

AcceptingFlows(text) ==
  {f \in flows :
     LET st == FlowDef(f).startTrigger
         shown(t) == IF st.caseSensitive THEN t ELSE ToLowerCase(t)
     IN  \/ st.triggerMode = "any"
         \/ /\ st.triggerMode = "keywords"
            /\ \E k \in st.keywords :
                 IF st.partialMatch THEN Includes(shown(Trim(text)), shown(k))
                 ELSE shown(Trim(text)) = shown(k)}

DefaultFlows == {f \in flows : FlowDef(f).isDefault}

FallbackChoice(text) ==
  IF CatchAllFlows # {} THEN CatchAllFlows
  ELSE IF AcceptingFlows(text) # {} THEN AcceptingFlows(text)
  ELSE DefaultFlows

\* C18: the flow chosen for a message follows the priority: a flow whose
\* trigger keyword equals the trimmed, upper-cased text; else the flow of the
\* contact's session when it is within its timeout; else a catch-all flow;
\* else a flow whose start_trigger accepts the text; else the default flow.
\* A lower rule is applied only when no higher rule matches.
C18_SelectionPriority ==
  [][\A i \in Invs :
       LET text == inv[i].text
           was == inv[i].pc
           now == inv'[i].pc
       IN  /\ (was = "resolve" /\ now \in {"execute", "conflict"})
                => IF KeywordFlows(text) # {}
                   THEN /\ inv'[i].selected \in KeywordFlows(text)
                        /\ now = "execute" => inv'[i].sessionFlow = inv'[i].selected
                   ELSE /\ inv[i].session # "none" /\ inv'[i].expired = "none"
                        /\ now = "execute" /\ inv'[i].sessionFlow = inv[i].sessionFlow
           /\ (was = "resolve" /\ now = "fallback")
                => /\ KeywordFlows(text) = {}
                   /\ inv[i].session = "none" \/ inv'[i].expired # "none"
           /\ (was = "fallback" /\ now \in {"execute", "conflict", "closed"})
                => /\ inv'[i].selected \in FallbackChoice(text)
                   /\ now = "execute" => inv'[i].sessionFlow = inv'[i].selected
           /\ (was = "fallback" /\ now = "done") => FallbackChoice(text) = {}
    ]_vars

\* The text "hix" has started the flow whose start_trigger keyword "hi"
\* matches in part, at a tenant that also has a default flow.
C18_Witness ==
  \E i \in Invs : /\ inv[i].pc = "execute" /\ inv[i].text = T_hix
                   /\ inv[i].sessionFlow = "fKW" /\ DefaultFlows # {}
                   /\ "fKW" \notin DefaultFlows

\* C19: when a node throws, the call executes no further node and the session
\* is preserved: the row is not deleted, and the call ends with the row
\* stored on the node that threw, with the call's variables.
C19_ThrowPreservesSession ==
  \A i \in Invs :
    inv[i].threw # "none"
      => /\ inv[i].pc \in {"exit", "done"}
         /\ \E x \in sessions : x.id = inv[i].session
         /\ inv[i].pc = "done"
              => \E x \in sessions : /\ x.id = inv[i].session
                                     /\ x.currentNodeId = inv[i].threw
                                     /\ x.variables = inv[i].variables

\* The variable node v has thrown after the api node's failure was noted in
\* the variables, and the call has ended.
C19_Witness ==
  \E i \in Invs : /\ inv[i].pc = "done" /\ inv[i].threw = "v"
                   /\ "api_error" \in inv[i].variables
                   /\ \E x \in sessions : x.id = inv[i].session /\ "api_error" \in x.variables

\* C20: when the external call of a node with a fail output fails, the call
\* goes on with the target of the node's fail edge if it has one; if it has
\* none the call ends and the session is preserved (the row is not deleted).
C20_FailEdgeOrPreserved ==
  \A i \in Invs :
    inv[i].failed # "none"
      => LET target == Target(inv[i].sessionFlow, inv[i].failed, "fail") IN
         IF target # NoNode
         THEN inv[i].node = target \/ target \in inv[i].ran
         ELSE \E x \in sessions : x.id = inv[i].session

\* The id under which button i is sent to the customer.
SentButtonId(data, i) == IF data[i].id # <<>> THEN data[i].id ELSE DefaultButtonId(i)

\* The buttons of the node that the input matches by id or title.
MatchingButtons(data, input) ==
  {i \in Slots : /\ data[i].title # <<>>
                 /\ \/ ToLowerCase(data[i].title) = ToLowerCase(Trim(input))
                    \/ ToLowerCase(SentButtonId(data, i)) = ToLowerCase(Trim(input))}

\* The target of the edge with the handle of button i, else of the default edge.
ButtonSuccessor(handles, i) ==
  IF ButtonHandle(i) \in handles THEN ButtonTarget(handles, ButtonHandle(i))
  ELSE ButtonTarget(handles, "")

\* C21: a suspended button node resumed with an input that matches button i by
\* id or title sets selected_button to that button's title, goes on with the
\* target of the edge btn<i>, else of the default edge, and removes
\* _pendingButtons; an input that matches no button, without retry-on-invalid,
\* takes the default edge and removes _pendingButtons.
C21_ButtonResume ==
  probe.pc = "resumed"
    => IF MatchingButtons(probe.data, probe.input) # {}
       THEN /\ probe.index \in MatchingButtons(probe.data, probe.input)
            /\ probe.selected_button = probe.data[probe.index].title
            /\ probe.next = ButtonSuccessor(probe.handles, probe.index)
            /\ "_pendingButtons" \notin probe.variables
       ELSE ~probe.retryOnInvalid
              => /\ probe.next = ButtonTarget(probe.handles, "")
                 /\ "_pendingButtons" \notin probe.variables

\* The page (from 0) on which item number m (from 1) of an array is shown.
PageOfItem(m) == (m - 1) \div 9

\* C22: a list over n > 9 items shows items 1-9 and a Next row first; a Next
\* selection shows the following 9 items and a Back selection the page before;
\* a Back row is there exactly after the first page and a Next row exactly
\* when items remain; item m has the row id m - 1 on its page, and a selection
\* of a row of the page shown stores that id.
C22_ListPaging ==
  /\ probe.pc = "pending"
       => /\ probe.rows = {m - 1 : m \in {m \in 1..probe.n : PageOfItem(m) = probe.page}}
          /\ probe.next = (\E m \in 1..probe.n : PageOfItem(m) > probe.page)
          /\ probe.prev = (probe.page > 0)
          /\ probe.last = "none" => probe.page = 0
          /\ probe.last = "__next" => probe.page = probe.was + 1
          /\ (probe.last = "__prev" /\ probe.was > 0) => probe.page = probe.was - 1
  /\ probe.pc = "selected"
       => /\ probe.selected_list_id = probe.tapped
          /\ PageOfItem(probe.tapped + 1) = probe.was

C24_SignatureRequired ==
  (probe.env # "development" /\ probe.signature \in {"missing", "wrong"})
    => /\ ~probe.began
       /\ ~probe.stored
       /\ probe.outcome = "none"

\* The inbound messages whose conversation update is still to come.
AwaitingUpdate(c) == {h \in Handlers : hnd[h].pc = "updateConv" /\ hnd[h].conv = c}

\* The inbound messages stored.
Persisted == {row.id : row \in inMsgs}

\* C25: unreadCount is never negative; a step changes it only by adding 1 for
\* an inbound message that has been stored, or by a mark-read setting it to 0;
\* and every stored inbound message gets its one increment.
C25_UnreadCount ==
  /\ [](\A c \in ConvIds : convs[c].unreadCount >= 0)
  /\ [](Persisted = {e[1] : e \in previewLog}
                      \cup {h \in Handlers : hnd[h].pc = "updateConv"})
  /\ [][\A c \in ConvIds :
          convs'[c].unreadCount # convs[c].unreadCount
            => \/ /\ convs'[c].unreadCount = convs[c].unreadCount + 1
                  /\ \E h \in AwaitingUpdate(c) :
                       /\ h \in Persisted
                       /\ hnd'[h].pc # "updateConv"
                       /\ previewLog' = previewLog \cup {<<h, hnd[h].waMessageId, c>>}
               \/ /\ convs'[c].unreadCount = 0
                  /\ probe.pc = "resetUnread" /\ probe.conv = c
                  /\ probe'.pc = "ended"]_vars

C25_Witness ==
  /\ probe.pc = "ended"
  /\ convs[probe.conv].unreadCount = 0
  /\ \E e \in previewLog : e[3] = probe.conv
  /\ \E h \in Handlers : hnd[h].pc = "updateConv" /\ hnd[h].conv = probe.conv

\* C26: the updateMany of a mark-read sets the read flag on exactly the
\* inbound messages of the conversation that are named in ids and leaves the
\* flag of every other message, outgoing ones included, as it was; the update
\* after it sets the unread counter to 0.
C26_MarkReadExact ==
  /\ [][(probe.pc = "updateMany" /\ probe'.pc = "resetUnread")
          => /\ probe'.readIn = probe.readIn
                  \cup {row.id : row \in {row \in inMsgs :
                                            row.id \in probe.ids /\ row.conv = probe.conv}}
             /\ \A m \in MsgIds : msgs'[m].isRead = msgs[m].isRead]_vars
  /\ [][(probe.pc = "resetUnread" /\ probe'.pc = "ended")
          => convs'[probe.conv].unreadCount = 0]_vars

\* C27: a contact of the tenant never has more than one conversation that is
\* open or pending, also while two deliveries are handled at the same time.
C27_OneOpenConversation ==
  \A phone \in Phones : Cardinality(OpenConversations(phone)) <= 1

\* The broadcasts that were sent to the contact: a recipient row of that
\* number on which the send succeeded.
SentBroadcasts(phone) ==
  {b \in Broadcasts : \E r \in RecIdx :
     recip[b][r].status \in Statuses \ {"FAILED"} /\ RecipientPhone(r) = phone}

\* The handler is past the attribution of its conversation.
Attributed(h) == hnd[h].pc \in {"createMsg", "updateConv", "trigger", "done", "rejected"}

\* C28: once an inbound message of a contact who was sent a broadcast has been
\* through the attribution, its conversation is a reply to a broadcast sent to
\* the contact, whether the conversation was there before the broadcast or
\* not, and the reply counter of a sent broadcast has been increased once for
\* each conversation that is a reply to it.
C28_ReplyCountedOnce ==
  /\ \A h \in Handlers :
       (Attributed(h) /\ SentBroadcasts(hnd[h].from) # {})
         => /\ convs[hnd[h].conv].isReply
            /\ convs[hnd[h].conv].broadcastId \in SentBroadcasts(hnd[h].from)
  /\ \A b \in Broadcasts :
       bcast[b].sentCount > 0
         => bcast[b].replyCount
              + Cardinality({h \in Handlers : hnd[h].pc = "replyInc"
                                              /\ hnd[h].convBroadcastId = b})
            = Cardinality({c \in ConvIds : convs[c].isReply /\ convs[c].broadcastId = b})

\* C29: a status webhook received for tenant o2 changes no message, no
\* broadcast recipient and no broadcast counter of another tenant.
C29_StatusTenantScoped ==
  [][nStatus' # nStatus
       => /\ \A m \in MsgIds : msgs[m].org # ForeignOrg => msgs'[m] = msgs[m]
          /\ \A b \in Broadcasts :
               bcast[b].org # ForeignOrg => (bcast'[b] = bcast[b] /\ recip'[b] = recip[b])]_vars

\* C30: a connected socket is in no conversation room of a conversation of
\* another tenant, and has received no typing or messages_read event for one.
C30_RoomsOfOwnTenant ==
  /\ \A x \in probe.rooms :
       (x[2][1] = "conversation" /\ convs[x[2][2]].status # "NONE")
         => ConversationOrg(x[2][2]) = SocketOrg(x[1])
  /\ \A y \in probe.received :
       convs[y[3]].status # "NONE" => ConversationOrg(y[3]) = SocketOrg(y[1])

\* C31: a broadcast whose dispatch was interrupted between two batches, while
\* its status is PROCESSING, is resumed by a later tick: every recipient is
\* attempted and the broadcast becomes COMPLETED.
C31_ResumedAfterInterrupt ==
  \A b \in Broadcasts :
    (/\ disp["tick1"].pc = "stopped"
     /\ disp["tick1"].bid = b
     /\ bcast[b].status = "PROCESSING"
     /\ BatchFinished("tick1")
     /\ disp["tick1"].i + BATCH_SIZE < bcast[b].totalRecipients)
      ~> (/\ bcast[b].status = "COMPLETED"
          /\ \A r \in RecIdx : r <= bcast[b].totalRecipients => attempts[b][r] > 0)

\* C32: a notification the scheduler has handled is SENT exactly when its
\* template send succeeded; when the send did not succeed it is FAILED and
\* carries the error.
C32_SentIffSucceeded ==
  \A id \in NotifIds :
    probe.rows[id].outcome # "none"
      => /\ (probe.rows[id].status = "SENT") => (probe.rows[id].outcome = "ok")
         /\ (probe.rows[id].outcome # "ok")
              => (probe.rows[id].status = "FAILED" /\ probe.rows[id].error # "none")

\* C33: no checkout has two pending reminders.
C33_OnePendingPerExternalId ==
  \A x \in ExternalIds : Cardinality(PendingFor(x)) <= 1

\* C39: no notification is sent twice, and one that was cancelled is not
\* marked SENT.
C39_SentAtMostOnce ==
  \A id \in NotifIds :
    /\ probe.sends[id] <= 1
    /\ probe.rows[id].cancelled => probe.rows[id].status # "SENT"

\* C34: the message that arrived second is stored in the conversation only
\* after the one that arrived first has been stored (or its handler has ended
\* without storing it).
C34_PersistedInArrivalOrder ==
  [][("h2" \notin Persisted /\ "h2" \in Persisted')
       => ("h1" \in Persisted \/ hnd["h1"].pc \in {"failed", "rejected"})]_vars

\* The handles a node's output may be followed through: the output itself and,
\* where the node allows one, the default edge.
AllowedHandles(type, output) ==
  CASE type = "payment" -> {output}
    [] type = "sql" -> IF output = "success" THEN {"success", ""} ELSE {"fail"}
    [] OTHER -> {output, "default", ""}

\* C35: the successor of a node with typed outputs is the target of an edge
\* whose handle is the selected output (or the default where allowed), and
\* there is no successor when the node has no such edge.
C35_TypedSuccessor ==
  probe.pc = "left"
    => LET allowed == AllowedHandles(probe.type, probe.output) IN
       IF \E k \in 1..Len(probe.edges) : probe.edges[k] \in allowed
       THEN \E k \in 1..Len(probe.edges) :
              probe.edges[k] \in allowed /\ probe.next = TargetOf(k)
       ELSE probe.next = NoNode

\* C36: whatever start attempts of a broadcast overlap, no recipient is sent
\* the template more than once and sentCount stays within totalRecipients.
C36_AtMostOncePerRecipient ==
  \A b \in Broadcasts :
    /\ \A r \in RecIdx : attempts[b][r] <= 1
    /\ bcast[b].sentCount <= bcast[b].totalRecipients

\* C37: when the one dispatch of a broadcast has finished and no status
\* webhook has been processed, failedCount is the number of FAILED recipients
\* and sentCount + failedCount = totalRecipients.
C37_FailedCountMatches ==
  \A b \in Broadcasts :
    (disp["create"].pc = "done" /\ disp["create"].bid = b /\ nStatus = 0)
      => /\ bcast[b].failedCount
              = Cardinality({r \in RecIdx : recip[b][r].status = "FAILED"})
         /\ bcast[b].sentCount + bcast[b].failedCount = bcast[b].totalRecipients

\* The number of pages of a list over n items.
PageCount(n) == (n + itemsPerPage - 1) \div itemsPerPage

\* C38: the page index of a paginated list stays within its pages, and the
\* page shown has rows.
C38_PageInRange ==
  /\ probe.page \in 0..(PageCount(probe.n) - 1)
  /\ probe.pc = "pending" => probe.rows # {}

\* C40: when the processing of an accepted envelope has ended, every message
\* of the envelope whose own handling does not throw is stored, in whatever
\* entry or change it is and whatever came before it.
C40_EveryMessagePersisted ==
  probe.pc \in {"done", "caught"}
    => \A p \in EnvelopeMessages : KindOf(p) # "failing" => p \in probe.stored

====
